---- MODULE Spec2Model ----
(***************************************************************************)
(* Model of the Telegram nutrition assistant (src/app): the per-user       *)
(* conversation state machine (context.user_data), the Profile and Meals   *)
(* sheets, and the handlers /start, text, voice and photo with the         *)
(* registration assistant and the main nutrition agent.                    *)
(*                                                                         *)
(* Text is a sequence of one-character strings, so that strip(), lower(),  *)
(* the substring test, float() and int() are computed, not assumed.        *)
(* A Python float is a fixed-point integer counting hundredths (Scale); an *)
(* int() result is a plain integer.  A Python dict is a function whose     *)
(* DOMAIN is its key set.                                                  *)
(***************************************************************************)
EXTENDS Integers, Sequences, FiniteSets, TLC

\* ------------------------------------------------------------------ text

Scale == 100

Digits == <<"0", "1", "2", "3", "4", "5", "6", "7", "8", "9">>
UpperLetters == <<"A", "B", "C", "D", "E", "F", "G", "H", "I", "J", "K", "L", "M",
                  "N", "O", "P", "Q", "R", "S", "T", "U", "V", "W", "X", "Y", "Z">>
LowerLetters == <<"a", "b", "c", "d", "e", "f", "g", "h", "i", "j", "k", "l", "m",
                  "n", "o", "p", "q", "r", "s", "t", "u", "v", "w", "x", "y", "z">>
Whitespace == {" ", "\t", "\n"}
\* the characters telegram.helpers.escape_markdown(version=2) escapes (the
\* backquote, which no modelled text contains, is left out)
MarkdownSpecial == {"_", "*", "[", "]", "(", ")", "~", ">", "#", "+", "-",
                    "=", "|", "{", "}", ".", "!", "\\"}

IsDigit(c) == \E i \in 1..10 : Digits[i] = c
DigitVal(c) == (CHOOSE i \in 1..10 : Digits[i] = c) - 1

\* str.lower() on one character
LowerChar(c) ==
    IF \E i \in 1..26 : UpperLetters[i] = c
    THEN LowerLetters[CHOOSE i \in 1..26 : UpperLetters[i] = c]
    ELSE c

\* str.lower()
Lower(s) == [i \in 1..Len(s) |-> LowerChar(s[i])]

\* str.strip(): drop leading and trailing whitespace
Strip(s) ==
    LET keep == {i \in 1..Len(s) : s[i] \notin Whitespace}
    IN  IF keep = {} THEN <<>>
        ELSE LET lo == CHOOSE i \in keep : \A j \in keep : i <= j
                 hi == CHOOSE i \in keep : \A j \in keep : j <= i
             IN  SubSeq(s, lo, hi)

\* the Python test (sub in s) on strings
Contains(sub, s) ==
    \E i \in 1..(Len(s) - Len(sub) + 1) : SubSeq(s, i, i + Len(sub) - 1) = sub

AllDigits(s) == Len(s) > 0 /\ \A i \in 1..Len(s) : IsDigit(s[i])

RECURSIVE DigitsValue(_)
DigitsValue(s) ==
    IF Len(s) = 0 THEN 0
    ELSE 10 * DigitsValue(SubSeq(s, 1, Len(s) - 1)) + DigitVal(s[Len(s)])

\* an optional sign, then the unsigned rest
SignOf(s) == IF Len(s) > 0 /\ s[1] = "-" THEN -1 ELSE 1
Unsigned(s) == IF Len(s) > 0 /\ s[1] \in {"-", "+"} THEN Tail(s) ELSE s

\* the first two fraction digits, as hundredths
FractionValue(f) ==
    IF Len(f) = 0 THEN 0
    ELSE IF Len(f) = 1 THEN 10 * DigitVal(f[1])
    ELSE 10 * DigitVal(f[1]) + DigitVal(f[2])

\* float(text) for decimal literals: surrounding whitespace, an optional sign,
\* digits with at most one point and a digit on at least one side of it.
\* (Exponents, underscores, inf and nan are outside the modelled inputs.)
PointLiteral(sign, ip, fp) ==
    IF /\ Len(ip) + Len(fp) > 0
       /\ \A i \in 1..Len(ip) : IsDigit(ip[i])
       /\ \A i \in 1..Len(fp) : IsDigit(fp[i])
    THEN [ok |-> TRUE, v |-> sign * (Scale * DigitsValue(ip) + FractionValue(fp))]
    ELSE [ok |-> FALSE, v |-> 0]

FloatLiteral(sign, body, dots) ==
    IF dots = {}
    THEN IF AllDigits(body)
         THEN [ok |-> TRUE, v |-> sign * Scale * DigitsValue(body)]
         ELSE [ok |-> FALSE, v |-> 0]
    ELSE IF Cardinality(dots) > 1 THEN [ok |-> FALSE, v |-> 0]
    ELSE PointLiteral(sign, SubSeq(body, 1, (CHOOSE i \in dots : TRUE) - 1),
                      SubSeq(body, (CHOOSE i \in dots : TRUE) + 1, Len(body)))

DotsOf(body) == {i \in 1..Len(body) : body[i] = "."}

ParseFloat(text) ==
    FloatLiteral(SignOf(Strip(text)), Unsigned(Strip(text)),
                 DotsOf(Unsigned(Strip(text))))

\* int(text): surrounding whitespace, an optional sign, decimal digits
IntLiteral(sign, body) ==
    IF AllDigits(body)
    THEN [ok |-> TRUE, v |-> sign * DigitsValue(body)]
    ELSE [ok |-> FALSE, v |-> 0]

\* a variant that converts through float() and truncates
ParseIntViaFloat(text) ==
    [ok |-> ParseFloat(text).ok, v |-> ParseFloat(text).v \div Scale]

ParseInt(text) == IntLiteral(SignOf(Strip(text)), Unsigned(Strip(text)))

\* str(n) of an integer
RECURSIVE NatToStr(_)
NatToStr(n) ==
    IF n < 10 THEN <<Digits[n + 1]>>
    ELSE NatToStr(n \div 10) \o <<Digits[(n % 10) + 1]>>
IntToStr(n) == IF n < 0 THEN <<"-">> \o NatToStr(-n) ELSE NatToStr(n)

\* escape_markdown(text, version=2): a backslash before every special character
RECURSIVE escape_markdown_v2(_)
escape_markdown_v2(s) ==
    IF Len(s) = 0 THEN <<>>
    ELSE (IF Head(s) \in MarkdownSpecial THEN <<"\\", Head(s)>> ELSE <<Head(s)>>)
         \o escape_markdown_v2(Tail(s))

\* ------------------------------------------------------- Python values

\* a dict is a function; d[k] = v, d.get(k, default), k in d
EmptyDict == <<>>
Has(d, k) == k \in DOMAIN d
Get(d, k, default) == IF k \in DOMAIN d THEN d[k] ELSE default
Put(d, k, v) == [x \in (DOMAIN d) \cup {k} |-> IF x = k THEN v ELSE d[x]]

\* JSON values as the classifier, estimator and analyzer return them
JNull == [t |-> "null"]
JStr(s) == [t |-> "str", s |-> s]
JNum(n) == [t |-> "num", n |-> n]
\* a JSON object: its members in order, each <<key, value>>
JObj(items) == [t |-> "obj", items |-> items]

\* Python truthiness of a JSON value (used by the (x or default) idiom)
Truthy(j) ==
    CASE j.t = "null" -> FALSE
      [] j.t = "str" -> Len(j.s) > 0
      [] j.t = "num" -> j.n # 0
      [] j.t = "obj" -> Len(j.items) > 0
      [] OTHER -> TRUE

\* float(x) of a JSON value: TypeError for None and containers, ValueError
\* for a string that is no number
FloatOfParsed(parsed) ==
    IF parsed.ok THEN [ok |-> TRUE, v |-> parsed.v, err |-> "none"]
    ELSE [ok |-> FALSE, v |-> 0, err |-> "ValueError"]

FloatOf(j) ==
    CASE j.t = "num" -> [ok |-> TRUE, v |-> j.n, err |-> "none"]
      [] j.t = "str" -> FloatOfParsed(ParseFloat(j.s))
      [] OTHER -> [ok |-> FALSE, v |-> 0, err |-> "TypeError"]

\* obj.get(key, default) on a JSON object (the last member of a repeated key wins)
ObjHas(j, key) == \E i \in 1..Len(j.items) : j.items[i][1] = key
ObjGet(j, key, default) ==
    IF ObjHas(j, key)
    THEN LET i == CHOOSE i \in 1..Len(j.items) :
                      /\ j.items[i][1] = key
                      /\ \A k \in (i + 1)..Len(j.items) : j.items[k][1] # key
         IN  j.items[i][2]
    ELSE default

\* ------------------------------------------------------------ the sheets

None == [none |-> TRUE]

\* get_all_records() of the Profile sheet, searched for str(user_id)
ProfileRowIndex(rows, user_id) ==
    LET hits == {i \in 1..Len(rows) : rows[i].User_ID = IntToStr(user_id)}
    IN  IF hits = {} THEN 0 ELSE CHOOSE i \in hits : \A j \in hits : i <= j

\* a variant that compares the cell with the integer id, without str():
\* no row ever matches
get_profile_unmatched(rows, user_id) == None

\* a cell as get_all_records() returns it: a cell that reads as a number comes
\* back as that number, any other as its text
numericise(text) ==
    IF ParseFloat(text).ok THEN JNum(ParseFloat(text).v) ELSE JStr(text)

\* str() of a cell value: a whole number without a point, a fraction without
\* trailing zeros
NumberText(n) ==
    (IF n < 0 THEN <<"-">> ELSE <<>>)
    \o NatToStr((IF n < 0 THEN -n ELSE n) \div Scale)
    \o (IF n % Scale = 0 THEN <<>>
        ELSE <<".">> \o <<Digits[(((IF n < 0 THEN -n ELSE n) % Scale) \div 10) + 1]>>
             \o (IF n % 10 = 0 THEN <<>>
                 ELSE <<Digits[((IF n < 0 THEN -n ELSE n) % 10) + 1]>>))

CellText(j) == IF j.t = "num" THEN NumberText(j.n) ELSE j.s

\* the record of a Profile row as it is read back
ProfileRecord(row) == [row EXCEPT !.Name = numericise(row.Name)]

get_profile_by_user_id(rows, user_id) ==
    IF ProfileRowIndex(rows, user_id) = 0 THEN None
    ELSE ProfileRecord(rows[ProfileRowIndex(rows, user_id)])

\* a variant that passes the two targets in the wrong order
ProfileRowSwapped(user_id, name, calories_target, protein_target) ==
    [User_ID |-> IntToStr(user_id), Name |-> name,
     Calories_target |-> protein_target, Protein_target |-> calories_target]

\* the row create_profile appends
ProfileRow(user_id, name, calories_target, protein_target) ==
    [User_ID |-> IntToStr(user_id), Name |-> name,
     Calories_target |-> calories_target, Protein_target |-> protein_target]

create_profile(rows, user_id, name, calories_target, protein_target) ==
    Append(rows, ProfileRow(user_id, name, calories_target, protein_target))

\* a variant that writes the named columns in every row
update_every_row(rows, user_id, fields) ==
    [i \in 1..Len(rows) |->
        [col \in DOMAIN rows[i] |->
            IF col \in DOMAIN fields THEN fields[col] ELSE rows[i][col]]]

\* a variant that counts the columns from 0: each value lands one column to
\* the left of its header
update_one_column_left(rows, user_id, fields) ==
    IF ProfileRowIndex(rows, user_id) = 0 THEN rows
    ELSE [rows EXCEPT ![ProfileRowIndex(rows, user_id)] =
             [col \in DOMAIN @ |->
                 IF col = "Name" /\ "Calories_target" \in DOMAIN fields
                 THEN NumberText(fields["Calories_target"])
                 ELSE IF col = "Calories_target" /\ "Protein_target" \in DOMAIN fields
                 THEN fields["Protein_target"]
                 ELSE @[col]]]

\* update_profile_fields: the first row of the user, the named columns only;
\* no row, no write
update_profile_fields(rows, user_id, fields) ==
    LET idx == ProfileRowIndex(rows, user_id)
    IN  IF idx = 0 THEN rows
        ELSE [rows EXCEPT ![idx] =
                 [col \in DOMAIN rows[idx] |->
                     IF col \in DOMAIN fields THEN fields[col] ELSE rows[idx][col]]]

\* the row append_meal_row appends
MealRow(user_id, date_str, meal_description, calories, proteins, carbs, fats) ==
    [User_ID |-> IntToStr(user_id), Date |-> date_str,
     Meal_description |-> meal_description, Calories |-> calories,
     Proteins |-> proteins, Carbs |-> carbs, Fats |-> fats]

\* a variant that inserts the row under the header, above the older rows
insert_meal_row(rows, row) == <<row>> \o rows

\* a variant that skips a row the sheet already holds
append_unless_logged(rows, row) ==
    IF \E i \in 1..Len(rows) : rows[i] = row THEN rows ELSE Append(rows, row)

append_meal_row(rows, row) == Append(rows, row)

\* a variant that returns the newest row first
RECURSIVE SelectRowsNewestFirst(_, _, _)
SelectRowsNewestFirst(rows, user_id_str, date_str) ==
    IF Len(rows) = 0 THEN <<>>
    ELSE SelectRowsNewestFirst(Tail(rows), user_id_str, date_str)
         \o (IF Head(rows).User_ID = user_id_str /\ Head(rows).Date = date_str
             THEN <<Head(rows)>> ELSE <<>>)

\* a variant that selects the rows of the date, whoever logged them
RECURSIVE SelectRowsOfDate(_, _, _)
SelectRowsOfDate(rows, user_id_str, date_str) ==
    IF Len(rows) = 0 THEN <<>>
    ELSE (IF Head(rows).Date = date_str THEN <<Head(rows)>> ELSE <<>>)
         \o SelectRowsOfDate(Tail(rows), user_id_str, date_str)

RECURSIVE SelectRows(_, _, _)
SelectRows(rows, user_id_str, date_str) ==
    IF Len(rows) = 0 THEN <<>>
    ELSE (IF Head(rows).User_ID = user_id_str /\ Head(rows).Date = date_str
          THEN <<Head(rows)>> ELSE <<>>)
         \o SelectRows(Tail(rows), user_id_str, date_str)

get_meals_for_date(rows, user_id, date_str) ==
    SelectRows(rows, IntToStr(user_id), date_str)

\* today_str(): the UTC day as YYYY-MM-DD; day d is the d-th of January 2025
today_str(d) ==
    <<"2", "0", "2", "5", "-", "0", "1", "-">>
    \o (IF d + 1 < 10 THEN <<"0">> ELSE <<>>) \o NatToStr(d + 1)

\* ---------------------------------------------------------- registration

\* the reply words of ask_know_targets (main.py 436 and 447)
AffirmativeWords ==
    {<<"y", "e", "s">>, <<"y">>, <<"y", "e", "a", "h">>, <<"y", "e", "p">>,
     <<"s", "u", "r", "e">>}
NegativeWords ==
    {<<"n", "o">>, <<"n">>, <<"n", "o", "p", "e">>, <<"n", "a", "h">>}

GainWords == {<<"g", "a", "i", "n">>, <<"b", "u", "l", "k">>,
              <<"m", "u", "s", "c", "l", "e">>}
LoseWords == {<<"l", "o", "s", "e">>, <<"c", "u", "t">>, <<"f", "a", "t">>}

\* a variant of the goal normalisation that looks for the lose words first
GoalNormLoseFirst(goal_text) ==
    IF \E w \in LoseWords : Contains(w, goal_text)
    THEN "lose fat"
    ELSE IF \E w \in GainWords : Contains(w, goal_text)
    THEN "gain muscle"
    ELSE "maintain"

\* the goal normalisation of ask_goal
GoalNorm(goal_text) ==
    IF \E w \in GainWords : Contains(w, goal_text)
    THEN "gain muscle"
    ELSE IF \E w \in LoseWords : Contains(w, goal_text)
    THEN "lose fat"
    ELSE "maintain"

\* estimate_calorie_and_protein_targets, given what the model call did:
\*   raise      generate_content raised
\*   pair       a JSON object with both targets as numbers
\*   malformed  KeyError, ValueError or JSONDecodeError: the heuristic
\*   typeerror  response.text is None, or a target is null: json.loads or
\*              float raises TypeError, which the except clause does not name
estimate_calorie_and_protein_targets(weight_kg, outcome) ==
    CASE outcome.kind = "pair" ->
            [raised |-> FALSE, calories |-> outcome.calories,
             protein |-> outcome.protein]
      [] outcome.kind = "malformed" ->
            [raised |-> FALSE, calories |-> weight_kg * 30,
             protein |-> (weight_kg * 18) \div 10]
      [] OTHER -> [raised |-> TRUE, calories |-> 0, protein |-> 0]

Reply(tag, body) == [tag |-> tag, body |-> body]

\* what one call of a handler part did: the user's dict afterwards, the rows
\* to append to the Profile sheet, the replies sent, whether it raised
RegResult(ud, rows, replies, raised, step, est) ==
    [ud |-> ud, rows |-> rows, replies |-> replies, raised |-> raised,
     step |-> step, est |-> est]

\* a variant that crosses from the estimated path to the manual one after the
\* weight
SetStepCrossing(ud, data, step) ==
    Put(Put(ud, "registration_data", data), "registration_step",
        IF step = "ask_height" THEN "ask_calories_target" ELSE step)

SetStep(ud, data, step) ==
    Put(Put(ud, "registration_data", data), "registration_step", step)

\* a variant of the numeric step that stores the number and asks again
NumericStepAsksAgain(ud, data, step, parsed, key, next, prompt, reprompt) ==
    IF parsed.ok
    THEN RegResult(SetStep(ud, Put(data, key, parsed.v), step), <<>>,
                   <<Reply(prompt, <<>>)>>, FALSE, step, <<>>)
    ELSE RegResult(Put(ud, "registration_data", data), <<>>,
                   <<Reply(reprompt, <<>>)>>, FALSE, step, <<>>)

\* a numeric step: parse, store under key, advance; re-prompt on ValueError
NumericStep(ud, data, step, parsed, key, next, prompt, reprompt) ==
    IF parsed.ok
    THEN RegResult(SetStep(ud, Put(data, key, parsed.v), next), <<>>,
                   <<Reply(prompt, <<>>)>>, FALSE, step, <<>>)
    ELSE RegResult(Put(ud, "registration_data", data), <<>>,
                   <<Reply(reprompt, <<>>)>>, FALSE, step, <<>>)

MainOnly == [mode |-> "main"]

\* a variant of the last manual step that clears the state before it creates
ProteinTargetStepClearsFirst(ud, data, chat_id, parsed, createRaises) ==
    IF ~parsed.ok
    THEN RegResult(Put(ud, "registration_data", data), <<>>,
                   <<Reply("reprompt_protein", <<>>)>>, FALSE,
                   "ask_protein_target", <<>>)
    ELSE IF createRaises
    THEN RegResult(MainOnly, <<>>, <<>>, TRUE, "ask_protein_target", <<>>)
    ELSE RegResult(MainOnly,
                   <<ProfileRow(chat_id, Get(data, "name", <<"c", "h", "a", "m", "p">>),
                                data["calories_target"], parsed.v)>>,
                   <<Reply("targets_locked", <<>>)>>, FALSE,
                   "ask_protein_target", <<>>)

\* the last manual step: create the Profile, clear the state
ProteinTargetStep(ud, data, chat_id, parsed, createRaises) ==
    IF ~parsed.ok
    THEN RegResult(Put(ud, "registration_data", data), <<>>,
                   <<Reply("reprompt_protein", <<>>)>>, FALSE,
                   "ask_protein_target", <<>>)
    ELSE LET d2 == Put(data, "protein_target", parsed.v)
             ud2 == Put(ud, "registration_data", d2)
         IN  IF ~Has(d2, "calories_target") \/ createRaises
             THEN RegResult(ud2, <<>>, <<>>, TRUE, "ask_protein_target", <<>>)
             ELSE RegResult(MainOnly,
                            <<ProfileRow(chat_id, Get(d2, "name", <<"c", "h", "a", "m", "p">>),
                                         d2["calories_target"], d2["protein_target"])>>,
                            <<Reply("targets_locked", <<>>)>>, FALSE,
                            "ask_protein_target", <<>>)

\* the last estimated step: normalise the goal, estimate, create, clear
GoalStep(ud, data, chat_id, user_text, outcome, createRaises) ==
    LET goal_text == Lower(user_text)
        d2 == Put(data, "goal_raw", goal_text)
        ud2 == Put(ud, "registration_data", d2)
        calculating == <<Reply("calculating", <<>>)>>
    IN  IF ~({"weight_kg", "height_cm", "age_years"} \subseteq DOMAIN d2)
        THEN RegResult(ud2, <<>>, <<>>, TRUE, "ask_goal", <<>>)
        ELSE LET e == estimate_calorie_and_protein_targets(d2["weight_kg"], outcome)
                 args == <<d2["weight_kg"], d2["height_cm"], d2["age_years"],
                           GoalNorm(goal_text)>>
             IN  IF e.raised \/ createRaises
                 THEN RegResult(ud2, <<>>, calculating, TRUE, "ask_goal", args)
                 ELSE RegResult(MainOnly,
                                <<ProfileRow(chat_id, Get(d2, "name", <<"c", "h", "a", "m", "p">>),
                                             e.calories, e.protein)>>,
                                calculating \o <<Reply("targets_calculated", <<>>)>>,
                                FALSE, "ask_goal", args)

\* a variant that compares the reply without lower()
KnowTargetsStepCaseSensitive(ud, data, user_text) ==
    IF user_text \in AffirmativeWords
    THEN RegResult(SetStep(ud, Put(data, "knows_targets", TRUE), "ask_calories_target"),
                   <<>>, <<Reply("ask_calories_target", <<>>)>>, FALSE,
                   "ask_know_targets", <<>>)
    ELSE IF user_text \in NegativeWords
    THEN RegResult(SetStep(ud, Put(data, "knows_targets", FALSE), "ask_weight"),
                   <<>>, <<Reply("ask_weight", <<>>)>>, FALSE,
                   "ask_know_targets", <<>>)
    ELSE RegResult(Put(ud, "registration_data", data), <<>>,
                   <<Reply("reprompt_yes_no", <<>>)>>, FALSE,
                   "ask_know_targets", <<>>)

KnowTargetsStep(ud, data, user_text) ==
    IF Lower(user_text) \in AffirmativeWords
    THEN RegResult(SetStep(ud, Put(data, "knows_targets", TRUE), "ask_calories_target"),
                   <<>>, <<Reply("ask_calories_target", <<>>)>>, FALSE,
                   "ask_know_targets", <<>>)
    ELSE IF Lower(user_text) \in NegativeWords
    THEN RegResult(SetStep(ud, Put(data, "knows_targets", FALSE), "ask_weight"),
                   <<>>, <<Reply("ask_weight", <<>>)>>, FALSE,
                   "ask_know_targets", <<>>)
    ELSE RegResult(Put(ud, "registration_data", data), <<>>,
                   <<Reply("reprompt_yes_no", <<>>)>>, FALSE,
                   "ask_know_targets", <<>>)

\* a variant that stores the name and forgets to advance the step
NameStepKeepsStep(ud, data, user_text) ==
    RegResult(Put(ud, "registration_data", Put(data, "name", user_text)), <<>>,
              <<Reply("ask_know_targets", escape_markdown_v2(user_text))>>, FALSE,
              "ask_name", <<>>)

NameStep(ud, data, user_text) ==
    RegResult(SetStep(ud, Put(data, "name", user_text), "ask_know_targets"), <<>>,
              <<Reply("ask_know_targets", escape_markdown_v2(user_text))>>, FALSE,
              "ask_name", <<>>)

\* registration_assistant on the user's dict ud0 and the message text
registration_assistant(ud0, chat_id, text, outcome, createRaises) ==
    LET user_text == Strip(text)
        data == Get(ud0, "registration_data", EmptyDict)
        ud == Put(ud0, "registration_data", data)
        step == Get(ud0, "registration_step", "ask_name")
    IN  CASE step = "ask_name" -> NameStep(ud, data, user_text)
          [] step = "ask_know_targets" -> KnowTargetsStep(ud, data, user_text)
          [] step = "ask_calories_target" ->
                NumericStep(ud, data, step, ParseFloat(user_text), "calories_target",
                            "ask_protein_target", "ask_protein_target",
                            "reprompt_calories")
          [] step = "ask_protein_target" ->
                ProteinTargetStep(ud, data, chat_id, ParseFloat(user_text), createRaises)
          [] step = "ask_weight" ->
                NumericStep(ud, data, step, ParseFloat(user_text), "weight_kg",
                            "ask_height", "ask_height", "reprompt_weight")
          [] step = "ask_height" ->
                NumericStep(ud, data, step, ParseFloat(user_text), "height_cm",
                            "ask_age", "ask_age", "reprompt_height")
          [] step = "ask_age" ->
                NumericStep(ud, data, step, ParseInt(user_text), "age_years",
                            "ask_goal", "ask_goal", "reprompt_age")
          [] step = "ask_goal" ->
                GoalStep(ud, data, chat_id, user_text, outcome, createRaises)
          [] OTHER -> RegResult(ud, <<>>, <<>>, FALSE, step, <<>>)

\* ------------------------------------------------ the main nutrition agent

\* string literals of the code, as text
aAppendMeal == <<"a", "p", "p", "e", "n", "d", "_", "m", "e", "a", "l">>
aUpdateProfile == <<"u", "p", "d", "a", "t", "e", "_", "p", "r", "o", "f", "i", "l",
    "e">>
aGetReport == <<"g", "e", "t", "_", "r", "e", "p", "o", "r", "t">>
aChat == <<"c", "h", "a", "t">>
sGotIt == <<"G", "o", "t", " ", "i", "t", "!">>
sUnderstand == <<"I", " ", "u", "n", "d", "e", "r", "s", "t", "a", "n", "d", "!", " ",
    "L", "e", "t", " ", "m", "e", " ", "h", "e", "l", "p", " ", "y", "o", "u", " ",
    "w", "i", "t", "h", " ", "t", "h", "a", "t", ".">>
sToday == <<"t", "o", "d", "a", "y">>
TodayTokens == {sToday, <<"t", "o", "n", "i", "g", "h", "t">>, <<"n", "o", "w">>}
sChatDefault == <<"G", "o", "t", " ", "i", "t", "!", " ", "I", "f", " ", "y", "o", "u",
    " ", "t", "e", "l", "l", " ", "m", "e", " ", "w", "h", "a", "t", " ", "y", "o",
    "u", " ", "a", "t", "e", ",", " ", "I", " ", "c", "a", "n", " ", "l", "o", "g",
    " ", "i", "t", ",", " ", "o", "r", " ", "y", "o", "u", " ", "c", "a", "n", " ",
    "a", "s", "k", " ", "m", "e", " ", "f", "o", "r", " ", "a", " ", "d", "a", "i",
    "l", "y", " ", "r", "e", "p", "o", "r", "t">>
sMealLogged == <<"N", "i", "c", "e", ",", " ", "I", "'", "v", "e", " ", "l", "o", "g",
    "g", "e", "d", " ", "t", "h", "a", "t", " ", "m", "e", "a", "l", " ", "f", "o",
    "r", " ", "y", "o", "u">>
CaloriesTargetKeys ==
    {<<"c", "a", "l", "o", "r", "i", "e", "s", "_", "t", "a", "r", "g", "e", "t">>,
     <<"c", "a", "l", "o", "r", "i", "e", "s">>, <<"k", "c", "a", "l">>}
ProteinTargetKeys ==
    {<<"p", "r", "o", "t", "e", "i", "n", "_", "t", "a", "r", "g", "e", "t">>,
     <<"p", "r", "o", "t", "e", "i", "n", "s">>, <<"p", "r", "o", "t", "e", "i", "n">>}

\* plan_nutrition_action, given what the model call did:
\*   raise        generate_content raised
\*   no_text      response.parsed and response.text are None: json.loads(None)
\*                raises TypeError, which the except clause does not name
\*   unparsable   json.loads raises JSONDecodeError: the chat fallback
\*   not_object   the JSON is no object: ValueError, the chat fallback
\*   object       a JSON object, data: action and reply are filled in
plan_nutrition_action(response) ==
    CASE response.kind = "object" ->
            LET data == response.data
                action == IF Truthy(Get(data, "action", JNull))
                          THEN data["action"] ELSE JStr(aChat)
                reply == IF Truthy(Get(data, "reply", JNull))
                         THEN data["reply"] ELSE JStr(sGotIt)
            IN  [raised |-> FALSE, plan |-> Put(Put(data, "action", action), "reply", reply)]
      [] response.kind \in {"unparsable", "not_object"} ->
            [raised |-> FALSE,
             plan |-> [action |-> JStr(aChat), reply |-> JStr(sUnderstand)]]
      [] OTHER -> [raised |-> TRUE, plan |-> EmptyDict]

\* (x or default) on a JSON value
OrElse(j, default) == IF Truthy(j) THEN j ELSE default

\* str(x) of a reply value: the classifier's replies are strings or null
TextOf(j) == IF j.t = "str" THEN j.s ELSE <<>>

\* a variant of the emptiness test that does not strip
IsEmptyText(s) == s = <<>>

IsBlank(s) == Strip(s) = <<>>

\* the four macros of append_meal: one try block, so one failure zeroes all
MacrosOrZero(c, p, b, f) ==
    IF c.ok /\ p.ok /\ b.ok /\ f.ok
    THEN [calories |-> c.v, proteins |-> p.v, carbs |-> b.v, fats |-> f.v]
    ELSE [calories |-> 0, proteins |-> 0, carbs |-> 0, fats |-> 0]

MealMacros(meal) ==
    MacrosOrZero(FloatOf(OrElse(ObjGet(meal, "calories", JNum(0)), JNum(0))),
                 FloatOf(OrElse(ObjGet(meal, "proteins", JNum(0)), JNum(0))),
                 FloatOf(OrElse(ObjGet(meal, "carbs", JNum(0)), JNum(0))),
                 FloatOf(OrElse(ObjGet(meal, "fats", JNum(0)), JNum(0))))

\* a variant that stores 0 for a value float() rejects
NormalizeUpdateZeroOnFailure(acc, k, v) ==
    IF k \in CaloriesTargetKeys
    THEN Put(acc, "Calories_target", v.v)
    ELSE IF k \in ProteinTargetKeys
    THEN Put(acc, "Protein_target", v.v)
    ELSE acc

\* the key normalisation loop of update_profile, over the members in order
NormalizeUpdate(acc, k, v) ==
    IF k \in CaloriesTargetKeys /\ v.ok
    THEN Put(acc, "Calories_target", v.v)
    ELSE IF k \in ProteinTargetKeys /\ v.ok
    THEN Put(acc, "Protein_target", v.v)
    ELSE acc

\* a variant that stops at the first value float() rejects
RECURSIVE NormalizeUntilFailure(_, _)
NormalizeUntilFailure(items, acc) ==
    IF Len(items) = 0 \/ ~FloatOf(Head(items)[2]).ok THEN acc
    ELSE NormalizeUntilFailure(Tail(items),
                               NormalizeUpdate(acc, Lower(Head(items)[1]),
                                               FloatOf(Head(items)[2])))

RECURSIVE NormalizeUpdates(_, _)
NormalizeUpdates(items, acc) ==
    IF Len(items) = 0 THEN acc
    ELSE NormalizeUpdates(Tail(items),
                          NormalizeUpdate(acc, Lower(Head(items)[1]),
                                          FloatOf(Head(items)[2])))

\* the date of a get_report
\* a variant that compares the date token as it is cased
ReportDateCaseSensitive(plan, today) ==
    IF Get(plan, "report_date", JStr(sToday)).t = "str"
    THEN IF Strip(Get(plan, "report_date", JStr(sToday)).s) \in TodayTokens
         THEN today_str(today)
         ELSE Strip(Get(plan, "report_date", JStr(sToday)).s)
    ELSE today_str(today)

ReportDate(plan, today) ==
    LET date_token == Get(plan, "report_date", JStr(sToday))
    IN  IF date_token.t = "str"
        THEN IF Strip(Lower(date_token.s)) \in TodayTokens
             THEN today_str(today)
             ELSE Strip(date_token.s)
        ELSE today_str(today)

RECURSIVE SumOf(_, _)
SumOf(rows, col) ==
    IF Len(rows) = 0 THEN 0 ELSE Head(rows)[col] + SumOf(Tail(rows), col)

\* int(x) of a float as the report prints it: the fraction is dropped
IntPart(x) == IF x >= 0 THEN x \div Scale ELSE -((-x) \div Scale)

\* the lines of the report, one per row and in the order of the rows
ReportLines(rows) ==
    [i \in 1..Len(rows) |->
        [desc |-> escape_markdown_v2(Strip(rows[i].Meal_description)),
         calories |-> IntPart(rows[i].Calories), proteins |-> IntPart(rows[i].Proteins),
         carbs |-> IntPart(rows[i].Carbs), fats |-> IntPart(rows[i].Fats)]]

\* round(x) of the float num / den, not negative: the nearest whole number,
\* and of two equally near ones the even one
Round(num, den) ==
    IF 2 * (num % den) < den THEN num \div den
    ELSE IF 2 * (num % den) > den THEN num \div den + 1
    ELSE IF (num \div den) % 2 = 0 THEN num \div den
    ELSE num \div den + 1

\* a variant that does not cap the ratio at 200%
progress_bar_uncapped(total, target) ==
    IF target <= 0 THEN [tag |-> "no_target_set"]
    ELSE LET ratio == IF total <= 0 THEN 0 ELSE total
             bar_len == 20
             filled == Round((IF ratio >= target THEN target ELSE ratio) * bar_len, target)
         IN  [tag |-> "bar", pct |-> Round(ratio * 100, target),
              bar |-> [i \in 1..bar_len |-> IF i <= filled THEN "filled" ELSE "empty"]]

\* progress_bar of build_daily_report_message: the cells of the bar, the filled
\* ones first, and the percentage. ratio is the numerator of
\* max(0.0, min(total / target, 2.0)) over target.
progress_bar(total, target) ==
    IF target <= 0 THEN [tag |-> "no_target_set"]
    ELSE LET ratio == IF total <= 0 THEN 0
                      ELSE IF total >= 2 * target THEN 2 * target ELSE total
             bar_len == 20
             filled == Round((IF ratio >= target THEN target ELSE ratio) * bar_len, target)
         IN  [tag |-> "bar", pct |-> Round(ratio * 100, target),
              bar |-> [i \in 1..bar_len |-> IF i <= filled THEN "filled" ELSE "empty"]]

\* the calories line and the protein line: the total, and with a target above
\* 0 the target and the bar under them
TargetLine(total, target) ==
    IF target > 0
    THEN [total |-> IntPart(total), target |-> IntPart(target),
          progress |-> progress_bar(total, target)]
    ELSE [total |-> IntPart(total), target |-> "no target set"]

\* a variant without the no-meals message: an aggregate of nothing
report_with_zero_totals(profileRows, mealRows, chat_id, date_str) ==
    IF get_profile_by_user_id(profileRows, chat_id) = None
    THEN [tag |-> "report_no_profile"]
    ELSE [tag |-> "report", date |-> date_str,
          n |-> Len(get_meals_for_date(mealRows, chat_id, date_str)),
          lines |-> ReportLines(get_meals_for_date(mealRows, chat_id, date_str)),
          calories |-> IntPart(SumOf(get_meals_for_date(mealRows, chat_id, date_str),
                                     "Calories")),
          proteins |-> IntPart(SumOf(get_meals_for_date(mealRows, chat_id, date_str),
                                     "Proteins")),
          carbs |-> IntPart(SumOf(get_meals_for_date(mealRows, chat_id, date_str),
                                  "Carbs")),
          fats |-> IntPart(SumOf(get_meals_for_date(mealRows, chat_id, date_str),
                                 "Fats"))]

\* build_daily_report_message: which message, the lines and the totals it shows
build_daily_report_message(profileRows, mealRows, chat_id, date_str) ==
    LET profile == get_profile_by_user_id(profileRows, chat_id)
        rows == get_meals_for_date(mealRows, chat_id, date_str)
    IN  IF profile = None
        THEN [tag |-> "report_no_profile"]
        ELSE IF Len(rows) = 0
        THEN [tag |-> "report_no_meals", date |-> date_str]
        ELSE [tag |-> "report", date |-> date_str, n |-> Len(rows),
              lines |-> ReportLines(rows),
              calories |-> IntPart(SumOf(rows, "Calories")),
              proteins |-> IntPart(SumOf(rows, "Proteins")),
              carbs |-> IntPart(SumOf(rows, "Carbs")),
              fats |-> IntPart(SumOf(rows, "Fats")),
              calories_line |-> TargetLine(SumOf(rows, "Calories"),
                                           profile.Calories_target),
              protein_line |-> TargetLine(SumOf(rows, "Proteins"),
                                          profile.Protein_target)]

AgentResult(profileRows, mealRows, replies, raised) ==
    [profiles |-> profileRows, meals |-> mealRows, replies |-> replies,
     raised |-> raised]

\* the append_meal branch: the row is written, then the reply is sent
AppendMealRow(profileRows, mealRows, chat_id, desc_raw, m, reply, today, writeRaises) ==
    IF writeRaises
    THEN AgentResult(profileRows, mealRows, <<>>, TRUE)
    ELSE AgentResult(profileRows,
                     append_meal_row(mealRows,
                                     MealRow(chat_id, today_str(today), desc_raw,
                                             m.calories, m.proteins, m.carbs, m.fats)),
                     <<Reply("meal_logged",
                             IF IsBlank(reply) THEN escape_markdown_v2(sMealLogged)
                             ELSE reply)>>,
                     FALSE)

AppendMeal(profileRows, mealRows, chat_id, meal, reply, today, writeRaises) ==
    IF meal.t # "obj"
    THEN AgentResult(profileRows, mealRows, <<>>, TRUE)
    ELSE AppendMealRow(profileRows, mealRows, chat_id,
                       TextOf(OrElse(ObjGet(meal, "description", JNull), JStr(<<"M", "e", "a", "l">>))),
                       MealMacros(meal), reply, today, writeRaises)

AppendMealBranch(profileRows, mealRows, chat_id, plan, reply, today, writeRaises) ==
    AppendMeal(profileRows, mealRows, chat_id,
               OrElse(Get(plan, "meal", JNull), JObj(<<>>)), reply, today, writeRaises)

\* the update_profile branch
UpdateTargets(profileRows, mealRows, chat_id, normalized_updates, reply, writeRaises) ==
    IF DOMAIN normalized_updates = {}
    THEN AgentResult(profileRows, mealRows, <<Reply("clarify_update", <<>>)>>, FALSE)
    ELSE IF writeRaises
    THEN AgentResult(profileRows, mealRows, <<>>, TRUE)
    ELSE AgentResult(update_profile_fields(profileRows, chat_id, normalized_updates),
                     mealRows,
                     <<IF IsBlank(reply) THEN Reply("targets_updated", <<>>)
                       ELSE Reply("plan_reply", reply)>>,
                     FALSE)

UpdateProfile(profileRows, mealRows, chat_id, raw_updates, reply, writeRaises) ==
    IF raw_updates.t # "obj"
    THEN AgentResult(profileRows, mealRows, <<>>, TRUE)
    ELSE UpdateTargets(profileRows, mealRows, chat_id,
                       NormalizeUpdates(raw_updates.items, EmptyDict), reply,
                       writeRaises)

UpdateProfileBranch(profileRows, mealRows, chat_id, plan, reply, writeRaises) ==
    UpdateProfile(profileRows, mealRows, chat_id,
                  OrElse(Get(plan, "profile_updates", JNull), JObj(<<>>)), reply,
                  writeRaises)

\* the get_report branch
GetReportBranch(profileRows, mealRows, chat_id, plan, today, readRaises) ==
    IF readRaises
    THEN AgentResult(profileRows, mealRows, <<>>, TRUE)
    ELSE AgentResult(profileRows, mealRows,
                     <<build_daily_report_message(profileRows, mealRows, chat_id,
                                                  ReportDate(plan, today))>>,
                     FALSE)

\* the chat branch
ChatBranch(profileRows, mealRows, reply) ==
    AgentResult(profileRows, mealRows,
                <<IF IsBlank(reply)
                  THEN Reply("plan_reply", escape_markdown_v2(sChatDefault))
                  ELSE Reply("plan_reply", reply)>>,
                FALSE)

\* the branches of main_nutrition_agent on the plan's action
Branch(profileRows, mealRows, chat_id, plan, action, reply, today, bad) ==
    IF action = JStr(aAppendMeal)
    THEN AppendMealBranch(profileRows, mealRows, chat_id, plan, reply, today,
                          bad = "write")
    ELSE IF action = JStr(aUpdateProfile)
    THEN UpdateProfileBranch(profileRows, mealRows, chat_id, plan, reply,
                             bad = "write")
    ELSE IF action = JStr(aGetReport)
    THEN GetReportBranch(profileRows, mealRows, chat_id, plan, today, bad = "read")
    ELSE ChatBranch(profileRows, mealRows, reply)

\* the plan's action and its escaped reply, then the branch
RunPlan(profileRows, mealRows, chat_id, plan, today, bad) ==
    Branch(profileRows, mealRows, chat_id, plan, Get(plan, "action", JStr(aChat)),
           escape_markdown_v2(TextOf(OrElse(Get(plan, "reply", JStr(<<>>)),
                                            JStr(<<>>)))),
           today, bad)

Planned(profileRows, mealRows, chat_id, planned, today, bad) ==
    IF bad = "classifier" \/ planned.raised
    THEN AgentResult(profileRows, mealRows, <<>>, TRUE)
    ELSE RunPlan(profileRows, mealRows, chat_id, planned.plan, today, bad)

\* main_nutrition_agent: one classifier call, then exactly one branch.
\* bad names the collaborator call that raises in this handling, if any.
main_nutrition_agent(profileRows, mealRows, chat_id, response, today, bad) ==
    Planned(profileRows, mealRows, chat_id, plan_nutrition_action(response), today,
            bad)

\* ------------------------------------------------------------ the inputs

MaxMeals == 2
MaxDay == 1

\* chat ids: two private chats and a group (group ids are negative)
Users == {7, -12, 3}

tAl == <<"A", "l">>
tYES == <<"Y", "E", "S">>
tNah == <<"N", "a", "h">>
t80 == <<"8", "0">>
t1p5 == <<" ", "1", ".", "5">>
tCutBulk == <<"C", "u", "t", " ", "b", "u", "l", "k">>
tY == <<"y">>
tHi == <<"H", "i", "!">>
tEgg == <<"E", "g", "g">>
tBlank == <<" ">>

\* what the estimator's model call may do when it returns
EstimatorOutcomes ==
    {[kind |-> "pair", calories |-> 2000 * Scale, protein |-> 120 * Scale],
     [kind |-> "malformed"], [kind |-> "typeerror"]}

Object(data) == [kind |-> "object", data |-> data]

\* what the classifier's model call may do when it returns
ChatResponses ==
    {[kind |-> "no_text"], [kind |-> "unparsable"], [kind |-> "not_object"],
     Object(EmptyDict),
     Object([action |-> JStr(aChat), reply |-> JStr(tHi)]),
     Object([action |-> JStr(aChat)]),
     Object([reply |-> JStr(tHi)]),
     Object([action |-> JNull, reply |-> JStr(<<>>)]),
     Object([action |-> JStr(<<"d", "a", "n", "c", "e">>), reply |-> JStr(tBlank)])}

MealResponses ==
    {Object([action |-> JStr(aAppendMeal), reply |-> JStr(tHi),
             meal |-> JObj(<<<<"description", JStr(tEgg)>>, <<"calories", JNum(300 * Scale)>>,
                             <<"proteins", JNum(20 * Scale + 50)>>, <<"carbs", JStr(t80)>>,
                             <<"fats", JNull>>>>)]),
     Object([action |-> JStr(aAppendMeal), reply |-> JStr(tBlank),
             meal |-> JObj(<<<<"calories", JNum(300 * Scale)>>,
                             <<"proteins", JStr(tAl)>>>>)]),
     Object([action |-> JStr(aAppendMeal), reply |-> JStr(tHi),
             meal |-> JObj(<<<<"description", JStr(tY)>>, <<"calories", JNum(-50 * Scale)>>,
                             <<"fats", JNum(10 * Scale)>>>>)]),
     Object([action |-> JStr(aAppendMeal), reply |-> JStr(tHi)])}

UpdateResponses ==
    {Object([action |-> JStr(aUpdateProfile), reply |-> JStr(tHi),
             profile_updates |-> JObj(<<<<<<"C", "a", "l", "o", "r", "i", "e", "s", "_", "t", "a", "r", "g", "e", "t">>, JNum(80 * Scale)>>,
                                        <<<<"P", "r", "o", "t", "e", "i", "n", "_", "t", "a", "r", "g", "e", "t">>, JNum(170 * Scale)>>>>)]),
     Object([action |-> JStr(aUpdateProfile), reply |-> JStr(tBlank),
             profile_updates |-> JObj(<<<<<<"K", "C", "A", "L">>, JStr(t80)>>>>)]),
     Object([action |-> JStr(aUpdateProfile), reply |-> JStr(tHi),
             profile_updates |-> JObj(<<<<<<"c", "a", "l", "o", "r", "i", "e", "s">>, JStr(tAl)>>,
                                        <<<<"P", "r", "o", "t", "e", "i", "n", "s">>, JNum(170 * Scale)>>>>)]),
     Object([action |-> JStr(aUpdateProfile), reply |-> JStr(tHi),
             profile_updates |-> JObj(<<<<<<"f", "o", "o">>, JNum(1 * Scale)>>>>)]),
     Object([action |-> JStr(aUpdateProfile), reply |-> JStr(tHi),
             profile_updates |-> JObj(<<<<<<"p", "r", "o", "t", "e", "i", "n">>, JStr(tAl)>>,
                                        <<<<"c", "a", "l", "o", "r", "i", "e", "s">>, JNull>>>>)]),
     Object([action |-> JStr(aUpdateProfile), reply |-> JStr(tHi),
             profile_updates |-> JObj(<<>>)]),
     Object([action |-> JStr(aUpdateProfile), reply |-> JStr(tHi),
             profile_updates |-> JNull]),
     Object([action |-> JStr(aUpdateProfile), reply |-> JStr(tHi)])}

ReportResponses ==
    {Object([action |-> JStr(aGetReport), reply |-> JStr(tHi)]),
     Object([action |-> JStr(aGetReport), reply |-> JStr(tHi),
             report_date |-> JStr(<<" ", "T", "o", "n", "i", "g", "h", "t", " ">>)]),
     Object([action |-> JStr(aGetReport), reply |-> JStr(tHi),
             report_date |-> JStr(<<"2", "0", "2", "5", "-", "0", "1", "-", "0", "1", " ">>)]),
     Object([action |-> JStr(aGetReport), reply |-> JStr(tHi),
             report_date |-> JStr(<<"s", "o", "o", "n">>)]),
     Object([action |-> JStr(aGetReport), reply |-> JStr(tHi),
             report_date |-> JNull])}

ClassifierResponses ==
    ChatResponses \cup MealResponses \cup UpdateResponses \cup ReportResponses

\* ------------------------------------------------------------- the state

VARIABLES
    user_data,   \* context.user_data of each chat: a dict
    profiles,    \* the rows of the Profile sheet, in order
    meals,       \* the rows of the Meals sheet, in order
    today,       \* the current UTC day
    tasks,       \* the updates waiting in the queue and the handler calls begun
    last         \* what handling the last update did (an observation)

vars == <<user_data, profiles, meals, today, tasks, last>>

\* no update waits and no handler call is in flight
NoTasks == [queue |-> <<>>, running |-> <<>>]

NoResponse == [kind |-> "none"]

\* the observation of one handled update: the chat and its dict before the
\* update, the kind of update, where the handler routed it, the registration
\* step it read and the text it read there, what the classifier, the estimator
\* or the analyzer returned, the arguments of the estimator call, the replies
\* sent and whether an exception left the handler; fault names the
\* collaborator call set to raise in this handling, if any
Obs(user, before, kind, route, step, text, response, est, replies, raised) ==
    [user |-> user, before |-> before, kind |-> kind, route |-> route,
     step |-> step, text |-> text, response |-> response, est |-> est,
     replies |-> replies, raised |-> raised, fault |-> "none"]

Faulted(obs, bad) == [obs EXCEPT !.fault = bad]

Idle(kind) == Obs(0, EmptyDict, kind, "none", "none", <<>>, NoResponse, <<>>, <<>>, FALSE)

\* a variant of the handler that only replies which also sets the mode
RepliesAndSetsMode(u, kind, tag) ==
    /\ last' = Obs(u, user_data[u], kind, "none", "none", <<>>, NoResponse, <<>>,
                   <<Reply(tag, <<>>)>>, FALSE)
    /\ user_data' = [user_data EXCEPT ![u] = Put(user_data[u], "mode", "main")]
    /\ UNCHANGED <<profiles, meals, today, tasks>>

\* a handler that only replies
OnlyReplies(u, kind, tag) ==
    /\ last' = Obs(u, user_data[u], kind, "none", "none", <<>>, NoResponse, <<>>,
                   <<Reply(tag, <<>>)>>, FALSE)
    /\ UNCHANGED <<user_data, profiles, meals, today, tasks>>

Init ==
    /\ user_data = [u \in Users |-> EmptyDict]
    /\ profiles = <<>>
    /\ meals = <<>>
    /\ today = 0
    /\ tasks = NoTasks
    /\ last = Idle("init")

\* the collaborator calls that may raise in one handling, under the fault set F
Bad(F, calls) == {"none"} \cup (F \cap calls)

\* ----------------------------------------------------------- the handlers

\* update.effective_chat.id of a message of sender u. context.user_data is the
\* dict of the sender (update.effective_user.id), while every call of a store
\* is given the id of the chat (main.py 185, 231, 256, 318, 414, 671). In a
\* private chat the two ids are equal, and a chat with one sender is named by
\* the id of the chat: 7, 3 and -12. The senders 5 and 9 are two members of
\* group -12 and write in the group.
effective_chat(u) == IF u \in {5, 9} THEN -12 ELSE u

\* a variant of the dict /start leaves that ignores the Profile
StartStateRegistration(profile) ==
    [mode |-> "registration", registration_step |-> "ask_name",
     registration_data |-> EmptyDict]

\* start(): look the Profile up, reset the dict
StartState(profile) ==
    IF profile = None
    THEN [mode |-> "registration", registration_step |-> "ask_name",
          registration_data |-> EmptyDict]
    ELSE MainOnly

\* a variant of start() without user_data.clear()
StartWithoutClear(u) ==
    \E profile \in {get_profile_by_user_id(profiles, effective_chat(u))} :
        /\ user_data' =
              [user_data EXCEPT ![u] =
                  IF profile = None
                  THEN Put(Put(Put(user_data[u], "mode", "registration"),
                               "registration_step", "ask_name"),
                           "registration_data",
                           Get(user_data[u], "registration_data", EmptyDict))
                  ELSE Put(user_data[u], "mode", "main")]
        /\ last' = Obs(u, user_data[u], "start", "none", "none", <<>>, NoResponse, <<>>,
                       <<Reply("welcome", <<>>)>>, FALSE)
        /\ UNCHANGED <<profiles, meals, today, tasks>>

Start(u) ==
    \E profile \in {get_profile_by_user_id(profiles, effective_chat(u))} :
        /\ user_data' = [user_data EXCEPT ![u] = StartState(profile)]
        /\ last' = Obs(u, user_data[u], "start", "none", "none", <<>>, NoResponse, <<>>,
                       IF profile = None
                       THEN <<Reply("welcome_new", <<>>)>>
                       ELSE <<Reply("welcome_back",
                                    escape_markdown_v2(
                                        CellText(OrElse(profile.Name,
                                                        JStr(<<"c", "h", "a", "m", "p">>)))))>>,
                       FALSE)
        /\ UNCHANGED <<profiles, meals, today, tasks>>

\* an edited message: update.message is None and the text, voice or photo
\* handler that receives it returns at once
EditedMessage(u) ==
    /\ last' = Obs(u, user_data[u], "edited", "none", "none", <<>>, NoResponse, <<>>, <<>>, FALSE)
    /\ UNCHANGED <<user_data, profiles, meals, today, tasks>>

\* handle_text_message without a Profile, on one text: setdefault of the mode,
\* then the registration assistant
text_registration(ud, chat_id, text, outcome, createRaises) ==
    registration_assistant(IF Has(ud, "mode") THEN ud
                           ELSE Put(ud, "mode", "registration"),
                           chat_id, text, outcome, createRaises)

RegistrationStep(u, text, outcome, bad) ==
    /\ get_profile_by_user_id(profiles, effective_chat(u)) = None
    /\ \E r \in {text_registration(user_data[u], effective_chat(u), text, outcome,
                                    bad = "create")} :
           /\ user_data' = [user_data EXCEPT ![u] = r.ud]
           /\ profiles' = profiles \o r.rows
           /\ last' = Faulted(Obs(u, user_data[u], "text", "registration", r.step, text,
                                  outcome, r.est, r.replies, r.raised), bad)
           /\ UNCHANGED <<meals, today, tasks>>

\* the estimator is called at ask_goal only
EstimatesAt(u, bad, I) ==
    IF Get(user_data[u], "registration_step", "ask_name") = "ask_goal"
    THEN IF bad = "estimator" THEN {[kind |-> "raise"]} ELSE I.estimates
    ELSE {[kind |-> "unused"]}

TextRegistration(u, F, I) ==
    \E text \in I.texts[u], bad \in Bad(F, {"estimator", "create"}) :
        \E outcome \in EstimatesAt(u, bad, I) :
            RegistrationStep(u, text, outcome, bad)

\* the dispatcher on one message of a registered user, given the classifier's
\* response: the mode is set, then the main nutrition agent runs; text is the
\* transcription of a voice message
DispatchStep(u, kind, text, response, bad) ==
    /\ get_profile_by_user_id(profiles, effective_chat(u)) # None
    /\ \E r \in {main_nutrition_agent(profiles, meals, effective_chat(u), response,
                                    today, bad)} :
           /\ Len(r.meals) <= MaxMeals
           /\ user_data' = [user_data EXCEPT ![u] = Put(user_data[u], "mode", "main")]
           /\ profiles' = r.profiles
           /\ meals' = r.meals
           /\ last' = Faulted(Obs(u, user_data[u], kind, "dispatcher", "none", text,
                                  response, <<>>, r.replies, r.raised), bad)
           /\ UNCHANGED <<today, tasks>>

\* handle_text_message, Profile found
TextMain(u, F, I) ==
    \E response \in I.responses["text"][u],
       bad \in Bad(F, {"classifier", "write", "read"}) :
        DispatchStep(u, "text", <<>>, response, bad)

\* ------------------------------------------------------- voice and photo

sNotParsed == <<"M", "e", "a", "l", " ", "(", "d", "e", "t", "a", "i", "l", "s", " ", "c", "o", "u", "l", "d", " ", "n", "o", "t", " ", "b", "e", " ", "p", "a", "r", "s", "e", "d", ")", ".">>

\* what the analyzer's model call may do when it returns
EggAnalysis ==
    [kind |-> "object",
      data |-> JObj(<<<<"meal_description", JStr(<<" ", "E", "g", "g", " ">>)>>,
                      <<"calories", JNum(300 * Scale)>>,
                      <<"proteins", JNum(20 * Scale + 50)>>,
                      <<"carbs", JStr(t80)>>, <<"fats", JNum(0)>>>>)]

AnalyzerOutcomes ==
    {EggAnalysis,
     [kind |-> "object", data |-> JObj(<<<<"calories", JStr(tAl)>>>>)],
     [kind |-> "object", data |-> JObj(<<<<"calories", JNull>>>>)],
     [kind |-> "unparsable"], [kind |-> "no_text"]}

AnalysisFallback ==
    [raised |-> FALSE, meal_description |-> sNotParsed, calories |-> 0,
     proteins |-> 0, carbs |-> 0, fats |-> 0]

\* the first exception of the four float() calls, in order
FirstError(c, p, b, f) ==
    IF c.err # "none" THEN c.err
    ELSE IF p.err # "none" THEN p.err
    ELSE IF b.err # "none" THEN b.err
    ELSE f.err

AnalysisOf(meal_description, c, p, b, f, first) ==
    IF first = "none"
    THEN [raised |-> FALSE, meal_description |-> meal_description,
          calories |-> c.v, proteins |-> p.v, carbs |-> b.v, fats |-> f.v]
    ELSE IF first = "ValueError" THEN AnalysisFallback
    ELSE [AnalysisFallback EXCEPT !.raised = TRUE]

AnalysisOfMacros(meal_description, c, p, b, f) ==
    AnalysisOf(meal_description, c, p, b, f, FirstError(c, p, b, f))

\* analyze_meal_image, given what the model call did: an object is read field
\* by field, KeyError/ValueError/JSONDecodeError/AttributeError give the
\* fallback dict, a TypeError (no text, a null macro) leaves the function
analyze_meal_image(outcome) ==
    CASE outcome.kind = "object" ->
            AnalysisOfMacros(
                Strip(TextOf(ObjGet(outcome.data, "meal_description", JStr(<<>>)))),
                FloatOf(ObjGet(outcome.data, "calories", JNum(0))),
                FloatOf(ObjGet(outcome.data, "proteins", JNum(0))),
                FloatOf(ObjGet(outcome.data, "carbs", JNum(0))),
                FloatOf(ObjGet(outcome.data, "fats", JNum(0))))
      [] outcome.kind = "unparsable" -> AnalysisFallback
      [] OTHER -> [AnalysisFallback EXCEPT !.raised = TRUE]

\* handle_voice_message
VoiceMessage(u, F, I) ==
    \/ /\ get_profile_by_user_id(profiles, effective_chat(u)) = None
       /\ OnlyReplies(u, "voice", "start_first")
    \/ /\ get_profile_by_user_id(profiles, effective_chat(u)) # None
       /\ \E transcribed_text \in I.transcriptions :
              /\ IsBlank(transcribed_text)
              /\ last' = Obs(u, user_data[u], "voice", "none", "none", transcribed_text,
                             NoResponse, <<>>, <<Reply("not_understood", <<>>)>>, FALSE)
       /\ UNCHANGED <<user_data, profiles, meals, today, tasks>>
    \/ \E transcribed_text \in I.transcriptions,
          response \in I.responses["voice"][u],
          bad \in Bad(F, {"classifier", "write", "read"}) :
           /\ ~IsBlank(transcribed_text)
           /\ DispatchStep(u, "voice", transcribed_text, response, bad)

\* handle_photo_message of a registered user, given the analyzer's outcome: the
\* analysis, then one append to the Meals sheet
PhotoStep(u, outcome, bad) ==
    /\ get_profile_by_user_id(profiles, effective_chat(u)) # None
    /\ \E a \in {analyze_meal_image(outcome)} :
           LET row == MealRow(effective_chat(u), today_str(today), a.meal_description, a.calories,
                              a.proteins, a.carbs, a.fats)
               failed == a.raised \/ bad = "analyze"
           IN  /\ failed \/ bad = "write" \/ Len(meals) < MaxMeals
               /\ meals' = IF failed \/ bad = "write" THEN meals
                           ELSE append_meal_row(meals, row)
               /\ last' = Faulted(Obs(u, user_data[u], "photo", "photo", "none", <<>>,
                                      outcome, <<>>,
                                      <<Reply(IF failed THEN "analysis_failed"
                                              ELSE IF bad = "write" THEN "save_failed"
                                              ELSE "photo_logged",
                                              IF failed THEN <<>>
                                              ELSE escape_markdown_v2(a.meal_description))>>,
                                      FALSE), bad)
               /\ UNCHANGED <<user_data, profiles, today, tasks>>

PhotoMessage(u, F, I) ==
    \/ /\ get_profile_by_user_id(profiles, effective_chat(u)) = None
       /\ OnlyReplies(u, "photo", "start_first")
    \/ \E outcome \in I.analyses, bad \in Bad(F, {"analyze", "write"}) :
           PhotoStep(u, outcome, bad)

\* a handler whose Profile lookup raises: nothing else happens
LookupRaises(u) ==
    \E kind \in {"start", "text", "voice", "photo"} :
        /\ last' = Faulted(Obs(u, user_data[u], kind, "none", "none", <<>>, NoResponse,
                               <<>>, <<>>, TRUE), "lookup")
        /\ UNCHANGED <<user_data, profiles, meals, today, tasks>>

\* handle_voice_message when the download fails or the transcriber raises
VoiceFails(u) ==
    /\ get_profile_by_user_id(profiles, effective_chat(u)) # None
    /\ \E tag \in {"download_failed", "transcription_failed"} :
           /\ last' = Faulted(Obs(u, user_data[u], "voice", "none", "none", <<>>,
                                  NoResponse, <<>>, <<Reply(tag, <<>>)>>, FALSE),
                              IF tag = "download_failed" THEN "download"
                              ELSE "transcribe")
           /\ UNCHANGED <<user_data, profiles, meals, today, tasks>>

\* handle_photo_message when the download fails
PhotoDownloadFails(u) ==
    /\ get_profile_by_user_id(profiles, effective_chat(u)) # None
    /\ last' = Faulted(Obs(u, user_data[u], "photo", "none", "none", <<>>, NoResponse,
                           <<>>, <<Reply("download_failed", <<>>)>>, FALSE),
                       "download")
    /\ UNCHANGED <<user_data, profiles, meals, today, tasks>>

\* ------------------------------------------------------- the environment

\* midnight UTC
Tick ==
    /\ today < MaxDay
    /\ today' = today + 1
    /\ last' = Idle("tick")
    /\ UNCHANGED <<user_data, profiles, meals, tasks>>

\* a variant of the restart that finds every dict as it was
RestartKeepsUserData ==
    /\ \E u \in Users : user_data[u] # EmptyDict
    /\ last' = [Idle("restart") EXCEPT !.before = user_data]
    /\ UNCHANGED <<user_data, profiles, meals, today, tasks>>

\* a process restart: user_data lives in memory only, the sheets survive; the
\* observation keeps the dicts that were lost
Restart ==
    /\ \E u \in Users : user_data[u] # EmptyDict
    /\ user_data' = [u \in Users |-> EmptyDict]
    /\ last' = [Idle("restart") EXCEPT !.before = user_data]
    /\ UNCHANGED <<profiles, meals, today, tasks>>

\* the updates the application handles, one at a time (main.py 809-821)
Handle(F, I) ==
    \E u \in DOMAIN I.texts :
        \/ Start(u)
        \/ TextRegistration(u, F, I)
        \/ TextMain(u, F, I)
        \/ VoiceMessage(u, F, I)
        \/ PhotoMessage(u, F, I)
        \/ EditedMessage(u)

\* collaborator calls that raise before the handler has done anything
Raises ==
    \E u \in Users :
        \/ LookupRaises(u)
        \/ VoiceFails(u)
        \/ PhotoDownloadFails(u)

Faults == {"estimator", "create", "classifier", "write", "read", "analyze"}

\* the inputs of a specification: the texts each chat may send, and what the
\* classifier, the estimator, the transcriber and the analyzer may return
Inputs(texts, responses, estimates, transcriptions, analyses) ==
    [texts |-> texts, responses |-> responses, estimates |-> estimates,
     transcriptions |-> transcriptions, analyses |-> analyses]

\* the same classifier responses for both kinds of message
Responses(of) == [kind \in {"text", "voice"} |-> of]

ChatOnly == {Object([action |-> JStr(aChat), reply |-> JStr(tHi)])}

\* registration in detail: chat 7 registers, by either path, with answers of
\* every kind; once it is registered the dispatcher only chats
RegInputs ==
    Inputs([u \in {7} |-> {tAl, tYES, tNah, t80, t1p5, tCutBulk}], Responses([u \in {7} |-> ChatOnly]),
           EstimatorOutcomes, {tEgg, tBlank}, {[kind |-> "no_text"]})

\* every collaborator call returns
Next == Handle({}, RegInputs) \/ Restart
Spec == Init /\ [][Next]_vars

\* the registration dialogue alone: chat 7 sends texts that read as a yes, a
\* no, a number and a whole number, each at every step
AnswerInputs ==
    Inputs([u \in {7} |-> {tYES, tNah, t80, t1p5}], Responses([u \in {7} |-> ChatOnly]),
           EstimatorOutcomes, {tEgg}, {[kind |-> "no_text"]})

\* a text of chat u that its step takes: no call raises and
\* registration_assistant stores the answer (a re-prompt stores nothing)
ValidAnswer(u) ==
    /\ ProfileRowIndex(profiles, effective_chat(u)) = 0
    /\ TextRegistration(u, {}, AnswerInputs)
    /\ ~last'.raised
    /\ user_data'[u] # user_data[u]

\* chat 7 answers the dialogue with texts its step takes and texts it does
\* not, and keeps sending texts its step takes while it has no Profile
SpecAnswers ==
    /\ Init
    /\ [][TextRegistration(7, {}, AnswerInputs) \/ TextMain(7, {}, AnswerInputs)]_vars
    /\ WF_vars(ValidAnswer(7))

\* the members 5 and 9 of group -12 write in the group: either may register,
\* by the manual path; member 9 asks for new targets, both send photos
GroupInputs ==
    Inputs([u \in {5, 9} |-> {tY, t80}],
           Responses([u \in {5, 9} |-> IF u = 9 THEN UpdateResponses ELSE ChatOnly]),
           EstimatorOutcomes, {tEgg, tBlank}, {EggAnalysis})

SpecGroup ==
    /\ user_data = [u \in {5, 9} |-> EmptyDict]
    /\ profiles = <<>>
    /\ meals = <<>>
    /\ today = 0
    /\ tasks = NoTasks
    /\ last = Idle("init")
    /\ [][Handle({}, GroupInputs)]_vars

\* two chats register side by side, by the manual path
UsersInputs ==
    Inputs([u \in {7, -12} |-> {tY, t80}], Responses([u \in {7, -12} |-> ChatOnly]),
           EstimatorOutcomes, {tEgg, tBlank}, {[kind |-> "no_text"]})

SpecUsers == Init /\ [][Handle({}, UsersInputs) \/ Restart]_vars

\* the dispatcher in detail, from a state the program reaches: chat -12 has
\* registered by the manual path and logged a meal by photo, chat 7 has
\* registered by the estimated path. Chat 7 is the one that writes; chat -12 is
\* silent; chat 3 has sent /start, is not registered and never gets further
\* than its name.
InitAgent ==
    /\ user_data = [u \in Users |-> IF u = 3 THEN StartState(None) ELSE MainOnly]
    /\ profiles = <<ProfileRow(-12, tY, 80 * Scale, 80 * Scale),
                    ProfileRow(7, tAl, 2000 * Scale, 120 * Scale)>>
    /\ meals = <<MealRow(-12, today_str(0), tEgg, 300 * Scale, 20 * Scale, 80 * Scale,
                         10 * Scale)>>
    /\ today = 0
    /\ tasks = NoTasks
    /\ last = Idle("init")

AgentInputs ==
    Inputs([u \in {7, 3} |-> IF u = 3 THEN {t80} ELSE {}],
           [kind \in {"text", "voice"} |->
               [u \in {7, 3} |-> IF u = 7 /\ kind = "text" THEN ClassifierResponses
                                 ELSE IF u = 7 THEN ChatOnly
                                 ELSE {}]],
           EstimatorOutcomes, {tEgg, tBlank},
           {EggAnalysis, [kind |-> "no_text"]})

SpecAgent == InitAgent /\ [][Handle({}, AgentInputs) \/ Tick]_vars

\* the report dates in detail: chat 7 logs meals by photo and asks for reports
SpecDates ==
    InitAgent
    /\ [][Handle({}, Inputs([u \in {7, 3} |-> IF u = 3 THEN {t80} ELSE {}],
                            [kind \in {"text", "voice"} |->
                                [u \in {7, 3} |->
                                    IF u = 7 /\ kind = "text" THEN ReportResponses
                                    ELSE IF u = 7 THEN ChatOnly
                                    ELSE {}]],
                            EstimatorOutcomes, {tEgg, tBlank}, {EggAnalysis}))
          \/ Tick]_vars

\* collaborator calls may raise: one classifier response of each action
FaultResponses ==
    {Object([action |-> JStr(aChat), reply |-> JStr(tHi)]),
     Object([action |-> JStr(aAppendMeal), reply |-> JStr(tHi),
             meal |-> JObj(<<<<"description", JStr(tEgg)>>,
                             <<"calories", JNum(300 * Scale)>>>>)]),
     Object([action |-> JStr(aUpdateProfile), reply |-> JStr(tHi),
             profile_updates |-> JObj(<<<<<<"k", "c", "a", "l">>, JNum(2300 * Scale)>>>>)]),
     Object([action |-> JStr(aUpdateProfile), reply |-> JStr(tHi),
             profile_updates |-> JObj(<<<<<<"f", "o", "o">>, JNum(1 * Scale)>>>>)]),
     Object([action |-> JStr(aGetReport), reply |-> JStr(tHi)])}

FaultInputs ==
    Inputs([u \in {7, 3} |-> IF u = 3 THEN {t80} ELSE {}],
           [kind \in {"text", "voice"} |->
               [u \in {7, 3} |-> IF u = 7 /\ kind = "text" THEN FaultResponses
                                 ELSE IF u = 7 THEN ChatOnly
                                 ELSE {}]],
           EstimatorOutcomes, {tEgg, tBlank, <<>>}, {EggAnalysis})

SpecFaults == InitAgent /\ [][Handle(Faults, FaultInputs) \/ Raises \/ Tick]_vars

\* the report builder on its own: any chat, any date, over sheets that hold
\* Profile rows of some chats and Meals rows of some chats and days
ReportProfiles ==
    {<<>>, <<ProfileRow(7, tAl, 2000 * Scale, 120 * Scale)>>,
     <<ProfileRow(7, tAl, 0, -120 * Scale)>>,
     <<ProfileRow(-12, tY, 80 * Scale, 80 * Scale),
       ProfileRow(7, tAl, 2000 * Scale, 120 * Scale)>>}

ReportMealRows ==
    {MealRow(7, today_str(0), tEgg, 300 * Scale, 20 * Scale + 50, 80 * Scale, 0),
     MealRow(7, today_str(0), tAl, 80 * Scale, 0, 0, 0),
     MealRow(7, today_str(1), tY, -50 * Scale, 0, 0, 10 * Scale),
     MealRow(-12, today_str(0), tEgg, 300 * Scale, 20 * Scale, 80 * Scale, 10 * Scale)}

InitReport ==
    /\ user_data = [u \in Users |-> EmptyDict]
    /\ profiles \in ReportProfiles
    /\ meals \in UNION {[1..n -> ReportMealRows] : n \in 0..MaxMeals}
    /\ today = 0
    /\ tasks = NoTasks
    /\ last = Idle("init")

BuildReport ==
    \E u \in Users,
       date_str \in {today_str(d) : d \in 0..MaxDay} \cup {<<"s", "o", "o", "n">>} :
        /\ last' = Obs(u, user_data[u], "report", "report_builder", "none", date_str,
                       NoResponse, <<>>,
                       <<build_daily_report_message(profiles, meals, u, date_str)>>,
                       FALSE)
        /\ UNCHANGED <<user_data, profiles, meals, today, tasks>>

SpecReport == InitReport /\ [][BuildReport]_vars

\* registration in detail, with create_profile raising or not
SpecCreate == Init /\ [][Handle({"create"}, RegInputs)]_vars

\* the photo handler in detail: chat 7 is registered and sends photos the
\* analyzer reads in every way, chat 3 is not registered; the Meals sheet
\* starts empty, and the analyzer and the append may raise
InitPhoto ==
    /\ user_data = [u \in Users |-> IF u = 3 THEN EmptyDict ELSE MainOnly]
    /\ profiles = <<ProfileRow(-12, tY, 80 * Scale, 80 * Scale),
                    ProfileRow(7, tAl, 2000 * Scale, 120 * Scale)>>
    /\ meals = <<>>
    /\ today = 0
    /\ tasks = NoTasks
    /\ last = Idle("init")

SpecPhoto ==
    InitPhoto
    /\ [][\/ \E u \in {7, 3} :
                 \/ PhotoMessage(u, {"analyze", "write"}, [analyses |-> AnalyzerOutcomes])
                 \/ PhotoDownloadFails(u)
          \/ Tick]_vars

\* ------------------------------------------------ the application's loop

MaxUpdates == 2

\* a variant of the application built with concurrent_updates(True)
concurrent_updates_on == TRUE

\* main() builds the application with Application.builder().token(...).build()
\* and registers its handlers with the default block: concurrent_updates is
\* off, so the application awaits the handling of one update before it takes
\* the next one from its queue
concurrent_updates == FALSE

\* a chat sends a text: the update waits in the application's queue; seen
\* notes the step the chat was at when it sent it
Arrive(u) ==
    \E text \in {tY, tNah, t80} :
        /\ Len(tasks.queue) + Len(tasks.running) < MaxUpdates
        /\ tasks' = [tasks EXCEPT !.queue =
                        Append(@, [user |-> u, text |-> text,
                                   seen |-> Get(user_data[u], "registration_step",
                                                "none")])]
        /\ last' = Idle("arrive")
        /\ UNCHANGED <<user_data, profiles, meals, today>>

\* the application takes the next update and calls handle_text_message, which
\* runs to its first await that suspends, the sending of a reply. At ask_goal
\* that reply is the 'calculating' one, sent after goal_raw is stored and
\* before the estimate, the Profile and the clearing of the state; at every
\* other step, and in the dispatcher, all of the state is written before the
\* first reply. old is the dict the call read.
Begin ==
    /\ tasks.queue # <<>>
    /\ concurrent_updates \/ tasks.running = <<>>
    /\ \E update \in {Head(tasks.queue)}, response \in ChatOnly :
           LET u == update.user
               ud == IF Has(user_data[u], "mode") THEN user_data[u]
                     ELSE Put(user_data[u], "mode", "registration")
               begun(at) == [queue |-> Tail(tasks.queue),
                             running |-> Append(tasks.running,
                                                [update |-> update, old |-> ud, at |-> at])]
           IN  IF get_profile_by_user_id(profiles, effective_chat(u)) # None
               THEN \E r \in {main_nutrition_agent(profiles, meals, effective_chat(u), response, today,
                                                   "none")} :
                        /\ user_data' = [user_data EXCEPT ![u] = Put(@, "mode", "main")]
                        /\ tasks' = begun("reply")
                        /\ last' = Obs(u, user_data[u], "text", "dispatcher", "none", <<>>,
                                       response, <<>>, r.replies, r.raised)
                        /\ UNCHANGED <<profiles, meals, today>>
               ELSE IF Get(ud, "registration_step", "ask_name") = "ask_goal"
               THEN /\ user_data' =
                          [user_data EXCEPT ![u] =
                              Put(ud, "registration_data",
                                  Put(Get(ud, "registration_data", EmptyDict), "goal_raw",
                                      Lower(Strip(update.text))))]
                    /\ tasks' = begun("calculating")
                    /\ last' = Obs(u, user_data[u], "text", "registration", "ask_goal",
                                   update.text, NoResponse, <<>>,
                                   <<Reply("calculating", <<>>)>>, FALSE)
                    /\ UNCHANGED <<profiles, meals, today>>
               ELSE \E r \in {text_registration(user_data[u], effective_chat(u), update.text,
                                                [kind |-> "unused"], FALSE)} :
                        /\ user_data' = [user_data EXCEPT ![u] = r.ud]
                        /\ profiles' = profiles \o r.rows
                        /\ tasks' = begun("reply")
                        /\ last' = Obs(u, user_data[u], "text", "registration", r.step,
                                       update.text, [kind |-> "unused"], r.est, r.replies,
                                       r.raised)
                        /\ UNCHANGED <<meals, today>>

\* a suspended handler call goes on when its reply is sent. After the
\* 'calculating' reply the ask_goal branch estimates the targets from the
\* answers it read, creates the Profile, clears the state and sends its last
\* reply; after any other reply the call returns.
Resume ==
    \E i \in 1..Len(tasks.running) :
        LET h == tasks.running[i]
            u == h.update.user
        IN  IF h.at = "calculating"
            THEN \E outcome \in {[kind |-> "pair", calories |-> 2000 * Scale,
                                  protein |-> 120 * Scale]} :
                 \E r \in {text_registration(h.old, effective_chat(u), h.update.text, outcome,
                                          FALSE)} :
                     /\ profiles' = profiles \o r.rows
                     /\ user_data' = [user_data EXCEPT ![u] = r.ud]
                     /\ tasks' = [tasks EXCEPT !.running[i].at = "reply"]
                     /\ last' = Obs(u, user_data[u], "text", "registration", r.step,
                                    h.update.text, outcome, r.est, r.replies, r.raised)
                     /\ UNCHANGED <<meals, today>>
            ELSE /\ tasks' = [tasks EXCEPT !.running =
                                 [j \in 1..(Len(@) - 1) |->
                                     IF j < i THEN @[j] ELSE @[j + 1]]]
                 /\ last' = Idle("replied")
                 /\ UNCHANGED <<user_data, profiles, meals, today>>

\* the texts of chat 7, which registers by either path, through the queue
SpecLoop == Init /\ [][Arrive(7) \/ Begin \/ Resume]_vars

\* ------------------------------------------------------------ properties

\* what the properties read of a state
HasProfile(rows, u) == \E i \in 1..Len(rows) : rows[i].User_ID = IntToStr(u)
RowOf(rows, u) == rows[CHOOSE i \in 1..Len(rows) : rows[i].User_ID = IntToStr(u)]
StepOf(ud) == Get(ud, "registration_step", "none")
DataOf(ud) == Get(ud, "registration_data", EmptyDict)
Unused == [kind |-> "unused"]

\* str.upper(), for the replies in another case
Upper(s) ==
    [i \in 1..Len(s) |->
        IF \E k \in 1..26 : LowerLetters[k] = s[i]
        THEN UpperLetters[CHOOSE k \in 1..26 : LowerLetters[k] = s[i]]
        ELSE s[i]]

\* the texts a user may send, and the value of those that are numbers
EnteredFloat(text) == IF text = t80 THEN 80 * Scale ELSE 150
EnteredInt(text) == 80
IsFloatText(text) == text \in {t80, t1p5}
IsIntText(text) == text = t80
\* a character that no number holds, and one that no integer holds
HasNonNumeric(text) ==
    \E i \in 1..Len(text) :
        text[i] \notin {Digits[k] : k \in 1..10} \cup {".", "+", "-"} \cup Whitespace
HasNonInteger(text) ==
    \E i \in 1..Len(text) :
        text[i] \notin {Digits[k] : k \in 1..10} \cup {"+", "-"} \cup Whitespace

\* C1: a text message of a user without a Profile is routed to registration,
\* never to the dispatcher; when the user's dict records no registration step
\* the message is handled at ask_name whatever it says: the (stripped) text
\* becomes the name and the step becomes ask_know_targets.
C1_Step ==
    (last'.kind = "text" /\ ~HasProfile(profiles, last'.user)) =>
        /\ last'.route = "registration"
        /\ ~Has(user_data[last'.user], "registration_step") =>
              /\ last'.step = "ask_name"
              /\ StepOf(user_data'[last'.user]) = "ask_know_targets"
              /\ Get(DataOf(user_data'[last'.user]), "name", None) = Strip(last'.text)
              /\ profiles' = profiles

C1_UnregisteredTextIsRegistration == [][C1_Step]_vars

\* a text that reads like a goal was taken as the name of a user whose dict
\* recorded no step
C1_Witness ==
    /\ last.kind = "text" /\ last.route = "registration" /\ last.user = 7
    /\ last.before = EmptyDict
    /\ last.text = tCutBulk
    /\ StepOf(user_data[7]) = "ask_know_targets"
    /\ DataOf(user_data[7]) = [name |-> tCutBulk]

\* the replies C2 names, and replies it does not name
YesReplies == {<<"y", "e", "s">>, <<"y">>, <<"y", "e", "a", "h">>, <<"y", "e", "p">>, <<"s", "u", "r", "e">>}
NoReplies == {<<"n", "o">>, <<"n">>, <<"n", "o", "p", "e">>, <<"n", "a", "h">>}
OtherReplies == {<<"y", "e">>, <<"y", "e", "s", " ", "p", "l", "e", "a", "s", "e">>, <<"n", "o", "t">>, <<"o", "k">>, <<"1">>, <<>>}
Capitalized(w) == IF Len(w) = 0 THEN w ELSE <<Upper(w)[1]>> \o Tail(w)
InAnyCase(words) ==
    words \cup {Upper(w) : w \in words} \cup {Capitalized(w) : w \in words}

\* what text_registration does with reply w in the dict ud of chat u
AnswerTo(ud, u, w) == text_registration(ud, u, w, Unused, FALSE)

\* C2: at ask_know_targets a reply in {yes, y, yeah, yep, sure}, in any case,
\* moves the step to ask_calories_target, a reply in {no, n, nope, nah} moves
\* it to ask_weight, and any other reply leaves the step and the dict as they
\* were, creates no Profile and only re-prompts. Stated of every reply a user
\* at that step may send next, and of the reply the last handling read.
C2_KnowTargetsTransitions ==
    /\ \A u \in Users :
          (~HasProfile(profiles, u) /\ StepOf(user_data[u]) = "ask_know_targets") =>
              /\ \A w \in InAnyCase(YesReplies) :
                    StepOf(AnswerTo(user_data[u], u, w).ud) = "ask_calories_target"
              /\ \A w \in InAnyCase(NoReplies) :
                    StepOf(AnswerTo(user_data[u], u, w).ud) = "ask_weight"
              /\ \A w \in InAnyCase(OtherReplies) \cup {t80, tAl, tCutBulk} :
                    /\ AnswerTo(user_data[u], u, w).ud = user_data[u]
                    /\ AnswerTo(user_data[u], u, w).rows = <<>>
                    /\ AnswerTo(user_data[u], u, w).replies
                           = <<Reply("reprompt_yes_no", <<>>)>>
    /\ (last.route = "registration" /\ last.step = "ask_know_targets") =>
          /\ last.text \in {tYES} => StepOf(user_data[last.user]) = "ask_calories_target"
          /\ last.text \in {tNah} => StepOf(user_data[last.user]) = "ask_weight"
          /\ last.text \notin {tYES, tNah} =>
                /\ user_data[last.user] = last.before
                /\ last.replies = <<Reply("reprompt_yes_no", <<>>)>>

\* an upper-case YES was read at ask_know_targets and moved the step on
C2_Witness ==
    /\ last.route = "registration" /\ last.step = "ask_know_targets"
    /\ last.text = tYES
    /\ StepOf(user_data[last.user]) = "ask_calories_target"

\* the numeric steps, the key each stores under, the step after each and the
\* re-prompt of each
NumericSteps ==
    {"ask_calories_target", "ask_protein_target", "ask_weight", "ask_height", "ask_age"}
KeyOfStep(step) ==
    CASE step = "ask_calories_target" -> "calories_target"
      [] step = "ask_protein_target" -> "protein_target"
      [] step = "ask_weight" -> "weight_kg"
      [] step = "ask_height" -> "height_cm"
      [] step = "ask_age" -> "age_years"
      [] step = "ask_name" -> "name"
      [] step = "ask_know_targets" -> "knows_targets"
      [] OTHER -> "goal_raw"
StepAfter(step) ==
    CASE step = "ask_calories_target" -> "ask_protein_target"
      [] step = "ask_weight" -> "ask_height"
      [] step = "ask_height" -> "ask_age"
      [] step = "ask_age" -> "ask_goal"
      [] OTHER -> "none"
RepromptOf(step) ==
    CASE step = "ask_calories_target" -> "reprompt_calories"
      [] step = "ask_protein_target" -> "reprompt_protein"
      [] step = "ask_weight" -> "reprompt_weight"
      [] step = "ask_height" -> "reprompt_height"
      [] OTHER -> "reprompt_age"
InvalidAt(step, text) ==
    IF step = "ask_age" THEN HasNonInteger(text) ELSE HasNonNumeric(text)
ValidAt(step, text) == IF step = "ask_age" THEN IsIntText(text) ELSE IsFloatText(text)
EnteredAt(step, text) ==
    IF step = "ask_age" THEN EnteredInt(text) ELSE EnteredFloat(text)

\* C3: at a numeric step an answer that is no number (at ask_age: no integer)
\* changes nothing: the step, the accumulated data and both sheets stay as they
\* were and the only reply is the step's re-prompt. The state being unchanged,
\* this repeats for any number of invalid answers; and a valid answer, from
\* whatever state the step is in, stores its value and advances (at
\* ask_protein_target: creates the Profile).
C3_Step ==
    (last'.route = "registration" /\ last'.step \in NumericSteps) =>
        /\ InvalidAt(last'.step, last'.text) \/ ValidAt(last'.step, last'.text)
        /\ InvalidAt(last'.step, last'.text) =>
              /\ user_data' = user_data
              /\ profiles' = profiles
              /\ meals' = meals
              /\ last'.replies = <<Reply(RepromptOf(last'.step), <<>>)>>
              /\ ~last'.raised
        /\ (ValidAt(last'.step, last'.text) /\ last'.step # "ask_protein_target") =>
              /\ StepOf(user_data'[last'.user]) = StepAfter(last'.step)
              /\ DataOf(user_data'[last'.user])[KeyOfStep(last'.step)]
                     = EnteredAt(last'.step, last'.text)
        /\ (ValidAt(last'.step, last'.text) /\ last'.step = "ask_protein_target") =>
              /\ HasProfile(profiles', last'.user)
              /\ ~Has(user_data'[last'.user], "registration_step")

C3_InvalidNumberChangesNothing == [][C3_Step]_vars

\* 1.5 was answered at ask_age: the step is still ask_age, the dict as before
C3_Witness ==
    /\ last.route = "registration" /\ last.step = "ask_age"
    /\ last.text = t1p5
    /\ user_data[last.user] = last.before
    /\ StepOf(user_data[last.user]) = "ask_age"
    /\ last.replies = <<Reply("reprompt_age", <<>>)>>

\* the handling completes a registration path
Completes(obs) ==
    /\ obs.route = "registration" /\ ~obs.raised
    /\ \/ obs.step = "ask_protein_target" /\ IsFloatText(obs.text)
       \/ obs.step = "ask_goal"

\* the targets of the Profile a completing handling creates, from the dict
\* before it: the entered ones, or what the estimator returned (the pair of
\* the response, or the weight heuristic when the response was malformed)
TargetsOf(obs) ==
    LET data == DataOf(obs.before)
    IN  IF obs.step = "ask_protein_target"
        THEN <<data["calories_target"], EnteredFloat(obs.text)>>
        ELSE IF obs.response.kind = "pair"
        THEN <<obs.response.calories, obs.response.protein>>
        ELSE <<data["weight_kg"] * 30, (data["weight_kg"] * 18) \div 10>>

\* C4: the handling that completes a registration path appends one Profile
\* row for the sender, whose name is the name stored at ask_name and whose
\* targets are the entered values (manual path) or the estimator's values for
\* the entered weight, height, age and the normalized goal (estimated path),
\* and leaves the sender's dict as exactly mode = main. A registration
\* handling that does not complete appends no row and keeps every answer
\* stored so far, so the name at completion is the ask_name text.
C4_Step ==
    (last'.route = "registration" /\ ~last'.raised) =>
        /\ Completes(last') =>
              /\ Has(DataOf(user_data[last'.user]), "name")
              /\ profiles' = Append(profiles,
                     [User_ID |-> IntToStr(last'.user),
                      Name |-> DataOf(user_data[last'.user])["name"],
                      Calories_target |-> TargetsOf(last')[1],
                      Protein_target |-> TargetsOf(last')[2]])
              /\ user_data'[last'.user] = [mode |-> "main"]
              /\ last'.step = "ask_goal" =>
                    /\ Len(last'.est) = 4
                    /\ last'.est[1] = DataOf(user_data[last'.user])["weight_kg"]
                    /\ last'.est[2] = DataOf(user_data[last'.user])["height_cm"]
                    /\ last'.est[3] = DataOf(user_data[last'.user])["age_years"]
                    /\ last'.est[4] \in {"gain muscle", "lose fat", "maintain"}
        /\ ~Completes(last') =>
              /\ profiles' = profiles
              /\ \A k \in DOMAIN DataOf(user_data[last'.user]) :
                    /\ Has(DataOf(user_data'[last'.user]), k)
                    /\ DataOf(user_data'[last'.user])[k] = DataOf(user_data[last'.user])[k]
              /\ last'.step = "ask_name" =>
                    DataOf(user_data'[last'.user])["name"] = Strip(last'.text)

C4_CompletionCreatesProfile == [][C4_Step]_vars

\* the estimated path was completed: the row holds the name given at ask_name
\* and the estimator's pair, and the dict is mode = main alone
C4_Witness ==
    /\ last.route = "registration" /\ last.step = "ask_goal" /\ ~last.raised
    /\ last.user = 7 /\ last.text = tCutBulk
    /\ last.response.kind = "pair"
    /\ DataOf(last.before)["name"] = tAl
    /\ HasProfile(profiles, 7)
    /\ RowOf(profiles, 7).Name = tAl
    /\ RowOf(profiles, 7).Calories_target = 2000 * Scale
    /\ user_data[7] = [mode |-> "main"]

\* C5: in every state the Profile sheet holds at most one row per user,
\* whatever texts and /start commands the users sent before and after
\* registering.
C5_OneProfilePerUser ==
    \A u \in Users :
        Cardinality({i \in 1..Len(profiles) : profiles[i].User_ID = IntToStr(u)}) <= 1

\* both chats are registered and one of them has sent /start since
C5_Witness ==
    /\ HasProfile(profiles, 7) /\ HasProfile(profiles, -12)
    /\ last.kind = "start" /\ last.user = 7
    /\ Len(profiles) = 2

\* C6: once a user has a Profile, no message of that user (text, voice, photo
\* or /start) runs the registration path or leaves a registration_step in the
\* dict, and every text message goes to the dispatcher with mode = main.
C6_Step ==
    /\ (last'.user \in Users /\ HasProfile(profiles, last'.user)) =>
          /\ last'.route # "registration"
          /\ last'.kind = "text" =>
                /\ last'.route = "dispatcher"
                /\ Get(user_data'[last'.user], "mode", "none") = "main"
    /\ \A u \in Users :
          HasProfile(profiles', u) => ~Has(user_data'[u], "registration_step")

C6_RegisteredNeverReenters == [][C6_Step]_vars

\* a registered user whose dict was empty sent a text: it was dispatched and
\* the dict is mode = main
C6_Witness ==
    /\ last.kind = "text" /\ last.route = "dispatcher" /\ last.user = 7
    /\ last.before = EmptyDict
    /\ HasProfile(profiles, 7)
    /\ user_data[7] = [mode |-> "main"]

\* C7: /start sets the sender's dict, whatever it held, to exactly mode =
\* registration, registration_step = ask_name, registration_data = {} when the
\* sender has no Profile and to exactly mode = main when the sender has one;
\* it writes to neither sheet and touches no other chat's dict.
C7_Step ==
    last'.kind = "start" =>
        /\ user_data'[last'.user] =
              IF HasProfile(profiles, last'.user)
              THEN [mode |-> "main"]
              ELSE [mode |-> "registration", registration_step |-> "ask_name",
                    registration_data |-> <<>>]
        /\ \A u \in Users \ {last'.user} : user_data'[u] = user_data[u]
        /\ profiles' = profiles
        /\ meals' = meals
        /\ ~last'.raised

C7_StartResets == [][C7_Step]_vars

\* /start arrived at ask_protein_target, with three answers stored: the dict
\* is the fresh registration dict
C7_Witness ==
    /\ last.kind = "start" /\ last.user = 7
    /\ StepOf(last.before) = "ask_protein_target"
    /\ Has(DataOf(last.before), "calories_target")
    /\ user_data[7] = [mode |-> "registration", registration_step |-> "ask_name",
                       registration_data |-> <<>>]
    /\ ~HasProfile(profiles, 7)

\* the action a classifier response names, if it names one
PlanAction(response) ==
    IF /\ response.kind = "object"
       /\ Has(response.data, "action")
       /\ response.data["action"].t = "str"
    THEN response.data["action"].s
    ELSE <<>>

\* the reply text a classifier response holds, if it holds one
PlanReply(response) ==
    IF /\ response.kind = "object"
       /\ Has(response.data, "reply")
       /\ response.data["reply"].t = "str"
    THEN response.data["reply"].s
    ELSE <<>>

\* the UTC day as the sheet writes it
DateOfDay(d) ==
    CASE d = 0 -> <<"2", "0", "2", "5", "-", "0", "1", "-", "0", "1">>
      [] d = 1 -> <<"2", "0", "2", "5", "-", "0", "1", "-", "0", "2">>
      [] d = 2 -> <<"2", "0", "2", "5", "-", "0", "1", "-", "0", "3">>
      [] OTHER -> <<"2", "0", "2", "5", "-", "0", "1", "-", "0", "4">>

\* the replies of each branch
BranchReplies(action) ==
    CASE action = aAppendMeal -> {"meal_logged"}
      [] action = aUpdateProfile -> {"clarify_update", "targets_updated", "plan_reply"}
      [] action = aGetReport -> {"report", "report_no_meals", "report_no_profile"}
      [] OTHER -> {"plan_reply"}

\* C8: a dispatched message of a registered user runs one branch, and the
\* branch decides the store effect. append_meal appends exactly one row to the
\* Meals sheet, for the sender and dated with the current UTC day, and leaves
\* the Profile sheet alone; update_profile appends no meal and changes nothing
\* in the Profile sheet but the sender's targets; get_report, chat and any
\* other action value write nothing. A handling that replies sends the one
\* reply of its branch.
C8_Step ==
    last'.route = "dispatcher" =>
        /\ PlanAction(last'.response) = aAppendMeal =>
              /\ Len(meals') = Len(meals) + 1
              /\ SubSeq(meals', 1, Len(meals)) = meals
              /\ meals'[Len(meals')].User_ID = IntToStr(last'.user)
              /\ meals'[Len(meals')].Date = DateOfDay(today)
              /\ profiles' = profiles
        /\ PlanAction(last'.response) = aUpdateProfile =>
              /\ meals' = meals
              /\ Len(profiles') = Len(profiles)
              /\ \A i \in 1..Len(profiles) :
                    /\ profiles'[i].User_ID = profiles[i].User_ID
                    /\ profiles'[i].Name = profiles[i].Name
                    /\ profiles[i].User_ID # IntToStr(last'.user) =>
                          profiles'[i] = profiles[i]
        /\ PlanAction(last'.response) \notin {aAppendMeal, aUpdateProfile} =>
              /\ meals' = meals
              /\ profiles' = profiles
        /\ ~last'.raised =>
              /\ Len(last'.replies) = 1
              /\ last'.replies[1].tag \in BranchReplies(PlanAction(last'.response))

C8_OneBranchOneEffect == [][C8_Step]_vars

\* on the second day chat 7 logged a meal behind the row of chat -12: the new
\* row is chat 7's and carries the second day
C8_Witness ==
    /\ last.route = "dispatcher" /\ last.user = 7
    /\ PlanAction(last.response) = aAppendMeal
    /\ today = 1
    /\ Len(meals) = 2
    /\ meals[1].User_ID = IntToStr(-12)
    /\ meals[2].User_ID = IntToStr(7)
    /\ meals[2].Date = DateOfDay(1)

\* a response the dispatcher cannot use as it is: no JSON to parse (none at
\* all, or text that is no JSON), JSON that is no object, or an object
\* without an action
Unparsable(response) == response.kind \in {"no_text", "unparsable", "not_object"}
LacksAction(response) == response.kind = "object" /\ PlanAction(response) = <<>>
LacksReply(response) == response.kind = "object" /\ PlanReply(response) = <<>>

\* C9: when the classifier's response is unparsable, is no JSON object or
\* lacks the action, the dispatcher goes on as for chat: it raises nothing,
\* writes to neither sheet and sends one conversational reply, which is a
\* generic acknowledgement when the response gave no reply; a response with
\* the action chat and no reply gets the generic text as well.
C9_Step ==
    last'.route = "dispatcher" =>
        /\ (Unparsable(last'.response) \/ LacksAction(last'.response)) =>
              /\ ~last'.raised
              /\ profiles' = profiles
              /\ meals' = meals
              /\ Len(last'.replies) = 1
              /\ last'.replies[1].tag = "plan_reply"
        /\ Unparsable(last'.response) =>
              /\ Len(last'.replies) = 1
              /\ last'.replies[1].body = escape_markdown_v2(sUnderstand)
        /\ (LacksReply(last'.response)
              /\ (LacksAction(last'.response) \/ PlanAction(last'.response) = aChat)) =>
              /\ Len(last'.replies) = 1
              /\ last'.replies[1].body = escape_markdown_v2(sGotIt)

C9_UnusableResponseIsChat == [][C9_Step]_vars

\* the classifier's response held no text: the handler raised and the user got
\* no reply
C9_Witness ==
    /\ last.route = "dispatcher"
    /\ last.response.kind = "no_text"
    /\ last.raised
    /\ last.replies = <<>>

\* the keys update_profile recognizes
TargetKeys == {<<"c", "a", "l", "o", "r", "i", "e", "s", "_", "t", "a", "r", "g", "e", "t">>, <<"c", "a", "l", "o", "r", "i", "e", "s">>, <<"k", "c", "a", "l">>, <<"p", "r", "o", "t", "e", "i", "n", "_", "t", "a", "r", "g", "e", "t">>, <<"p", "r", "o", "t", "e", "i", "n", "s">>,
               <<"p", "r", "o", "t", "e", "i", "n">>}

\* a member of profile_updates that names a target and holds a number
UsableUpdate(item) ==
    /\ Lower(item[1]) \in TargetKeys
    /\ \/ item[2].t = "num"
       \/ item[2].t = "str" /\ IsFloatText(item[2].s)

\* profile_updates is absent or null, or none of its members is usable
NoUsableUpdate(response) ==
    /\ response.kind = "object"
    /\ \/ ~Has(response.data, "profile_updates")
       \/ response.data["profile_updates"].t = "null"
       \/ /\ response.data["profile_updates"].t = "obj"
          /\ \A i \in 1..Len(response.data["profile_updates"].items) :
                ~UsableUpdate(response.data["profile_updates"].items[i])

\* C10: an update_profile whose profile_updates is absent, holds no
\* recognized key, or holds recognized keys only with values that are no
\* numbers, writes nothing to the Profile sheet (nor to the Meals sheet) and
\* is answered with the fixed clarification message alone.
C10_Step ==
    (/\ last'.route = "dispatcher"
     /\ PlanAction(last'.response) = aUpdateProfile
     /\ NoUsableUpdate(last'.response)) =>
        /\ profiles' = profiles
        /\ meals' = meals
        /\ last'.replies = <<Reply("clarify_update", <<>>)>>
        /\ ~last'.raised

C10_UnusableUpdateWritesNothing == [][C10_Step]_vars

\* a recognized key with a value that is no number, beside a null: the
\* clarification was sent and chat 7's targets are the ones it registered with
C10_Witness ==
    /\ last.route = "dispatcher" /\ last.user = 7
    /\ PlanAction(last.response) = aUpdateProfile
    /\ NoUsableUpdate(last.response)
    /\ Has(last.response.data, "profile_updates")
    /\ last.response.data["profile_updates"].t = "obj"
    /\ Len(last.response.data["profile_updates"].items) = 2
    /\ last.replies = <<Reply("clarify_update", <<>>)>>
    /\ RowOf(profiles, 7).Calories_target = 2000 * Scale
    /\ RowOf(profiles, 7).Protein_target = 120 * Scale

\* the keys of each target, and the number a usable value stands for
CaloriesKeys == {<<"c", "a", "l", "o", "r", "i", "e", "s", "_", "t", "a", "r", "g", "e", "t">>, <<"c", "a", "l", "o", "r", "i", "e", "s">>, <<"k", "c", "a", "l">>}
ProteinKeys == {<<"p", "r", "o", "t", "e", "i", "n", "_", "t", "a", "r", "g", "e", "t">>, <<"p", "r", "o", "t", "e", "i", "n", "s">>, <<"p", "r", "o", "t", "e", "i", "n">>}
IsNumber(j) == j.t = "num" \/ (j.t = "str" /\ IsFloatText(j.s))
NumberOf(j) == IF j.t = "num" THEN j.n ELSE EnteredFloat(j.s)

\* the members of profile_updates that name a target of keys and hold a number
Surviving(items, keys) ==
    {i \in 1..Len(items) : Lower(items[i][1]) \in keys /\ IsNumber(items[i][2])}

\* the target after the update: the last surviving member's number, or the
\* previous value when none survives
TargetAfter(items, keys, old) ==
    IF Surviving(items, keys) = {} THEN old
    ELSE NumberOf(items[CHOOSE i \in Surviving(items, keys) :
                            \A k \in Surviving(items, keys) : k <= i][2])

UpdatesOf(response) ==
    IF /\ Has(response.data, "profile_updates")
       /\ response.data["profile_updates"].t = "obj"
    THEN response.data["profile_updates"].items
    ELSE <<>>

\* C11: on update_profile a key that equals calories_target, calories or kcal
\* in any case sets Calories_target and one that equals protein_target,
\* proteins or protein sets Protein_target; a member whose value is no number
\* is dropped and the others still apply; the sender's row gets the surviving
\* values, and every column not named, every other row and the Meals sheet
\* keep their values.
C11_Step ==
    (/\ last'.route = "dispatcher"
     /\ PlanAction(last'.response) = aUpdateProfile
     /\ ~last'.raised) =>
        /\ meals' = meals
        /\ Len(profiles') = Len(profiles)
        /\ \A i \in 1..Len(profiles) :
              IF profiles[i].User_ID = IntToStr(last'.user)
              THEN profiles'[i] =
                      [User_ID |-> profiles[i].User_ID,
                       Name |-> profiles[i].Name,
                       Calories_target |->
                           TargetAfter(UpdatesOf(last'.response), CaloriesKeys,
                                       profiles[i].Calories_target),
                       Protein_target |->
                           TargetAfter(UpdatesOf(last'.response), ProteinKeys,
                                       profiles[i].Protein_target)]
              ELSE profiles'[i] = profiles[i]

C11_UpdateWritesSurvivingFields == [][C11_Step]_vars

\* calories came with a value that is no number and Proteins with 170: chat 7
\* keeps its calories target and has the new protein target
C11_Witness ==
    /\ last.route = "dispatcher" /\ last.user = 7
    /\ PlanAction(last.response) = aUpdateProfile
    /\ Surviving(UpdatesOf(last.response), CaloriesKeys) = {}
    /\ \E i \in 1..Len(UpdatesOf(last.response)) :
          /\ Lower(UpdatesOf(last.response)[i][1]) \in CaloriesKeys
          /\ ~IsNumber(UpdatesOf(last.response)[i][2])
    /\ Surviving(UpdatesOf(last.response), ProteinKeys) # {}
    /\ RowOf(profiles, 7).Calories_target = 2000 * Scale
    /\ RowOf(profiles, 7).Protein_target = 170 * Scale

\* the date a get_report is about: the current UTC day when report_date is
\* absent or names today, else the literal
RequestedDate(response, day) ==
    IF /\ Has(response.data, "report_date")
       /\ response.data["report_date"].t = "str"
       /\ Strip(Lower(response.data["report_date"].s)) \notin {<<"t", "o", "d", "a", "y">>, <<"t", "o", "n", "i", "g", "h", "t">>, <<"n", "o", "w">>}
    THEN Strip(response.data["report_date"].s)
    ELSE DateOfDay(day)

\* the sum of a macro over the Meals rows of a user and a date
RECURSIVE MacroSum(_, _, _, _, _)
MacroSum(rows, n, uid, date, col) ==
    IF n = 0 THEN 0
    ELSE MacroSum(rows, n - 1, uid, date, col)
         + (IF rows[n].User_ID = uid /\ rows[n].Date = date THEN rows[n][col] ELSE 0)

SumFor(obs, rows, day, col) ==
    MacroSum(rows, Len(rows), IntToStr(obs.user), RequestedDate(obs.response, day), col)

\* a whole number shows a sum when it is the sum without its fraction
ShowsWhole(n, sum) ==
    IF sum >= 0 THEN n * Scale <= sum /\ sum < (n + 1) * Scale
    ELSE sum <= n * Scale /\ (n - 1) * Scale < sum

IsReport(obs) ==
    /\ obs.route = "dispatcher"
    /\ Len(obs.replies) = 1
    /\ obs.replies[1].tag = "report"

\* C12 as stated: each total the report shows (calories, protein, carbs,
\* fats) equals the sum of that macro over the Meal entries of that user and
\* date.
C12_ExactStep ==
    IsReport(last') =>
        /\ last'.replies[1].calories * Scale = SumFor(last', meals', today, "Calories")
        /\ last'.replies[1].proteins * Scale = SumFor(last', meals', today, "Proteins")
        /\ last'.replies[1].carbs * Scale = SumFor(last', meals', today, "Carbs")
        /\ last'.replies[1].fats * Scale = SumFor(last', meals', today, "Fats")

C12_ReportShowsExactSums == [][C12_ExactStep]_vars

\* C12, amended: each total the report shows is the whole part (int(), the
\* fraction dropped) of the sum of that macro over exactly the Meal entries of
\* that user and date.
C12_Step ==
    IsReport(last') =>
        /\ ShowsWhole(last'.replies[1].calories, SumFor(last', meals', today, "Calories"))
        /\ ShowsWhole(last'.replies[1].proteins, SumFor(last', meals', today, "Proteins"))
        /\ ShowsWhole(last'.replies[1].carbs, SumFor(last', meals', today, "Carbs"))
        /\ ShowsWhole(last'.replies[1].fats, SumFor(last', meals', today, "Fats"))

C12_ReportShowsWholeSums == [][C12_Step]_vars

\* chat 7 asked for today's report with one meal of 20.5 g protein logged,
\* beside the meal chat -12 logged the same day: 20 g is shown, and none of
\* chat -12's calories
C12_Witness ==
    /\ IsReport(last) /\ last.user = 7
    /\ Len(meals) = 2
    /\ meals[1].User_ID = IntToStr(-12) /\ meals[2].User_ID = IntToStr(7)
    /\ meals[1].Date = meals[2].Date
    /\ RequestedDate(last.response, today) = meals[2].Date
    /\ SumFor(last, meals, today, "Proteins") = 20 * Scale + 50
    /\ last.replies[1].proteins = 20
    /\ last.replies[1].calories = 300

\* the Meals rows of a chat and a date
EntriesOf(rows, u, date) ==
    {i \in 1..Len(rows) : rows[i].User_ID = IntToStr(u) /\ rows[i].Date = date}

Totals == {"calories", "proteins", "carbs", "fats"}

\* C13: the report for a chat without a Profile, and the report for a chat
\* with a Profile and no Meal entry on the date asked for, is a fixed message
\* that shows no totals; totals are shown exactly when the chat has a Profile
\* and at least one Meal entry of that date.
C13_FixedMessageWithoutEntries ==
    last.route = "report_builder" =>
        /\ ~HasProfile(profiles, last.user) =>
              last.replies = <<[tag |-> "report_no_profile"]>>
        /\ (HasProfile(profiles, last.user)
              /\ EntriesOf(meals, last.user, last.text) = {}) =>
              last.replies = <<[tag |-> "report_no_meals", date |-> last.text]>>
        /\ (HasProfile(profiles, last.user)
              /\ EntriesOf(meals, last.user, last.text) # {}) =>
              last.replies[1].tag = "report"
        /\ (Totals \cap DOMAIN last.replies[1] # {}) <=>
              (HasProfile(profiles, last.user)
                 /\ EntriesOf(meals, last.user, last.text) # {})

\* chat 7 has a Profile and a meal of the first day, and asked about the
\* second day: the no-meals message for that day
C13_Witness ==
    /\ last.route = "report_builder" /\ last.user = 7
    /\ HasProfile(profiles, 7)
    /\ EntriesOf(meals, 7, DateOfDay(0)) # {}
    /\ last.text = DateOfDay(1)
    /\ last.replies = <<[tag |-> "report_no_meals", date |-> DateOfDay(1)]>>

\* the meal object of an append_meal response, and whether a field of it is
\* a number
MealOf(response) ==
    IF Has(response.data, "meal") /\ response.data["meal"].t = "obj"
    THEN response.data["meal"].items
    ELSE <<>>

HoldsNumber(items, key) ==
    \E i \in 1..Len(items) : items[i][1] = key /\ IsNumber(items[i][2])

MacroColumns ==
    {<<"calories", "Calories">>, <<"proteins", "Proteins">>, <<"carbs", "Carbs">>,
     <<"fats", "Fats">>}

\* C14: every macro (calories, proteins, carbs, fats) stored in the Meal
\* entry an append_meal appends is a number that is not negative, and a macro
\* whose field holds no number is stored as 0.
C14_Step ==
    (/\ last'.route = "dispatcher"
     /\ PlanAction(last'.response) = aAppendMeal
     /\ Len(meals') = Len(meals) + 1) =>
        \A mc \in MacroColumns :
            /\ meals'[Len(meals')][mc[2]] >= 0
            /\ ~HoldsNumber(MealOf(last'.response), mc[1]) =>
                  meals'[Len(meals')][mc[2]] = 0

C14_StoredMacrosNotNegative == [][C14_Step]_vars

\* the classifier gave a meal of -50 kcal and the row holds -50 kcal
C14_Witness ==
    /\ last.route = "dispatcher" /\ last.user = 7
    /\ PlanAction(last.response) = aAppendMeal
    /\ \E i \in 1..Len(MealOf(last.response)) :
          MealOf(last.response)[i] = <<"calories", JNum(-50 * Scale)>>
    /\ meals[Len(meals)].User_ID = IntToStr(7)
    /\ meals[Len(meals)].Calories = -50 * Scale

\* the dispatcher branch of the response writes to a sheet
WritesToStore(response) ==
    \/ PlanAction(response) = aAppendMeal
    \/ PlanAction(response) = aUpdateProfile /\ ~NoUsableUpdate(response)

\* C15: when the store write of a dispatcher branch raises (the Meals append
\* of append_meal, the Profile update of update_profile), the handler catches
\* it, the user gets one generic failure message, and nothing is written.
C15_Step ==
    (/\ last'.route = "dispatcher"
     /\ last'.fault = "write"
     /\ WritesToStore(last'.response)) =>
        /\ ~last'.raised
        /\ Len(last'.replies) = 1
        /\ last'.replies[1].tag = "save_failed"
        /\ meals' = meals
        /\ profiles' = profiles

C15_WriteFailureIsReported == [][C15_Step]_vars

\* the Meals append of an append_meal raised: the exception left the handler
\* and the user got no reply
C15_Witness ==
    /\ last.route = "dispatcher" /\ last.fault = "write"
    /\ PlanAction(last.response) = aAppendMeal
    /\ last.raised
    /\ last.replies = <<>>

\* the replies that apologize for a failure
Apologies ==
    {"save_failed", "analysis_failed", "download_failed", "transcription_failed",
     "failed"}

\* the collaborator call that is set to raise is made in the handling
CallMade(obs) ==
    \/ obs.fault \in {"lookup", "download", "transcribe"}
    \/ obs.fault = "classifier" /\ obs.route = "dispatcher"
    \/ obs.fault = "write" /\ obs.route = "dispatcher" /\ WritesToStore(obs.response)
    \/ obs.fault = "read" /\ obs.route = "dispatcher"
          /\ PlanAction(obs.response) = aGetReport
    \/ obs.fault = "estimator" /\ obs.route = "registration" /\ obs.step = "ask_goal"
    \/ obs.fault \in {"analyze", "write"} /\ obs.route = "photo"

\* C16: when a collaborator call raises while a message is handled (the
\* classifier, the estimator, the transcriber, the analyzer, a store read or
\* write), the handler catches it and the user gets exactly one apology; no
\* message is left without a reply.
C16_RaiseBecomesApology ==
    CallMade(last) =>
        /\ ~last.raised
        /\ Cardinality({i \in 1..Len(last.replies) :
                            last.replies[i].tag \in Apologies}) = 1

\* the classifier call raised for a text of chat 7: the exception left the
\* handler and the user got no reply
C16_Witness ==
    /\ last.route = "dispatcher" /\ last.fault = "classifier" /\ last.user = 7
    /\ last.raised
    /\ last.replies = <<>>

\* C17: the handling of the goal answer on the estimated path always creates
\* the Profile: with the estimator's pair when the estimator gave one, and
\* with calories = weight_kg * 30 and protein = weight_kg * 1.8 whenever the
\* estimator failed.
C17_Step ==
    (last'.route = "registration" /\ last'.step = "ask_goal") =>
        profiles' = Append(profiles,
            [User_ID |-> IntToStr(last'.user),
             Name |-> DataOf(last'.before)["name"],
             Calories_target |->
                 IF last'.response.kind = "pair" THEN last'.response.calories
                 ELSE DataOf(last'.before)["weight_kg"] * 30,
             Protein_target |->
                 IF last'.response.kind = "pair" THEN last'.response.protein
                 ELSE (DataOf(last'.before)["weight_kg"] * 18) \div 10])

C17_EstimatedPathAlwaysCreates == [][C17_Step]_vars

\* the estimator's response held no text: the goal answer was acknowledged,
\* the exception left the handler, and chat 7 has no Profile and is still at
\* ask_goal
C17_Witness ==
    /\ last.route = "registration" /\ last.step = "ask_goal" /\ last.user = 7
    /\ last.response.kind = "typeerror"
    /\ last.raised
    /\ ~HasProfile(profiles, 7)
    /\ last.replies = <<Reply("calculating", <<>>)>>
    /\ StepOf(user_data[7]) = "ask_goal"

\* C18: the Meals sheet is append-only: whatever update is handled, every
\* row that was there is still there, unchanged and at the same place, and
\* new rows come after them.
C18_Step ==
    /\ Len(meals') >= Len(meals)
    /\ SubSeq(meals', 1, Len(meals)) = meals

C18_MealLogAppendOnly == [][C18_Step]_vars

\* chat 7 sent a photo on the second day: its row stands behind the row chat
\* -12 logged on the first day
C18_Witness ==
    /\ last.kind = "photo" /\ last.user = 7
    /\ last.replies[1].tag = "photo_logged"
    /\ today = 1
    /\ Len(meals) = 2
    /\ meals[1] = [User_ID |-> IntToStr(-12), Date |-> DateOfDay(0),
                   Meal_description |-> tEgg, Calories |-> 300 * Scale,
                   Proteins |-> 20 * Scale, Carbs |-> 80 * Scale, Fats |-> 10 * Scale]
    /\ meals[2].User_ID = IntToStr(7) /\ meals[2].Date = DateOfDay(1)

\* C19: a Profile row is never removed and its User_ID and Name never
\* change, whatever update is handled; its targets change only in a handling
\* of an update_profile action of the chat the row belongs to.
C19_Step ==
    /\ Len(profiles') >= Len(profiles)
    /\ \A i \in 1..Len(profiles) :
          /\ profiles'[i].User_ID = profiles[i].User_ID
          /\ profiles'[i].Name = profiles[i].Name
          /\ profiles'[i] # profiles[i] =>
                /\ last'.route = "dispatcher"
                /\ PlanAction(last'.response) = aUpdateProfile
                /\ profiles[i].User_ID = IntToStr(last'.user)

C19_ProfileIdentityIsStable == [][C19_Step]_vars

\* chat 7 set both targets: its row is still the second, under the same name,
\* and the row of chat -12 is as it was
C19_Witness ==
    /\ last.route = "dispatcher" /\ last.user = 7
    /\ PlanAction(last.response) = aUpdateProfile
    /\ Len(profiles) = 2
    /\ profiles[1] = [User_ID |-> IntToStr(-12), Name |-> tY,
                      Calories_target |-> 80 * Scale, Protein_target |-> 80 * Scale]
    /\ profiles[2] = [User_ID |-> IntToStr(7), Name |-> tAl,
                      Calories_target |-> 80 * Scale,
                      Protein_target |-> 170 * Scale]

\* C20: reading the Profile of a user_id right after it was created returns
\* the name, the calories target and the protein target that were passed to
\* the creation.
C20_Step ==
    (Completes(last') /\ Len(profiles') = Len(profiles) + 1) =>
        get_profile_by_user_id(profiles', last'.user) =
            [User_ID |-> IntToStr(last'.user),
             Name |-> JStr(DataOf(last'.before)["name"]),
             Calories_target |-> TargetsOf(last')[1],
             Protein_target |-> TargetsOf(last')[2]]

C20_CreateThenReadReturnsSame == [][C20_Step]_vars

\* chat 7 registered under the name "80": the row was created with that text
\* and the read returns the number 80 as the name
C20_Witness ==
    /\ Completes(last) /\ last.user = 7
    /\ DataOf(last.before)["name"] = t80
    /\ HasProfile(profiles, 7)
    /\ get_profile_by_user_id(profiles, 7).Name = JNum(80 * Scale)
    /\ get_profile_by_user_id(profiles, 7).Calories_target = TargetsOf(last)[1]
    /\ get_profile_by_user_id(profiles, 7).Protein_target = TargetsOf(last)[2]

\* the member of an analysis object under a key
HoldsKey(items, key) == \E i \in 1..Len(items) : items[i][1] = key
ItemOf(items, key) == items[CHOOSE i \in 1..Len(items) : items[i][1] = key][2]

\* the analyzer returned: it was not set to raise, its response has a text,
\* and no macro of the object it parsed is null
Analysed(obs) ==
    /\ obs.fault # "analyze"
    /\ obs.response.kind \in {"object", "unparsable"}
    /\ obs.response.kind = "object" =>
          \A mc \in MacroColumns :
              HoldsKey(obs.response.data.items, mc[1]) =>
                  ItemOf(obs.response.data.items, mc[1]).t # "null"

\* the analyzer read the object: every macro it holds is a number
AnalysisRead(response) ==
    /\ response.kind = "object"
    /\ \A mc \in MacroColumns :
           HoldsKey(response.data.items, mc[1]) =>
               IsNumber(ItemOf(response.data.items, mc[1]))

\* the Meal entry of an analysed photo: the analyzer's description and macros
\* when it read the object, its fallback description and zero macros otherwise
PhotoEntry(obs, day) ==
    LET items == obs.response.data.items
        macro(key) == IF AnalysisRead(obs.response) /\ HoldsKey(items, key)
                      THEN NumberOf(ItemOf(items, key)) ELSE 0
    IN  [User_ID |-> IntToStr(obs.user), Date |-> DateOfDay(day),
         Meal_description |->
             IF ~AnalysisRead(obs.response) THEN sNotParsed
             ELSE IF HoldsKey(items, "meal_description")
                  THEN Strip(ItemOf(items, "meal_description").s)
                  ELSE <<>>,
         Calories |-> macro("calories"), Proteins |-> macro("proteins"),
         Carbs |-> macro("carbs"), Fats |-> macro("fats")]

\* C21: a photo of a registered chat that was downloaded and analysed appends
\* exactly one Meal entry, for the sender, dated with the current UTC day and
\* carrying the analyzer's description and macros, whatever rows the sheet
\* already holds (an equal row is no obstacle), and the one reply is the
\* photo's own (the classifier's reply is never sent); when the append raises
\* no entry is added and the one reply is the apology for the save. Nothing
\* else is written.
C21_Step ==
    (last'.kind = "photo" /\ last'.route = "photo") =>
        /\ profiles' = profiles
        /\ user_data' = user_data
        /\ Len(last'.replies) = 1
        /\ ~last'.raised
        /\ (Analysed(last') /\ last'.fault # "write") =>
              /\ meals' = Append(meals, PhotoEntry(last', today))
              /\ last'.replies[1].tag = "photo_logged"
        /\ (Analysed(last') /\ last'.fault = "write") =>
              /\ meals' = meals
              /\ last'.replies[1].tag = "save_failed"
        /\ ~Analysed(last') =>
              /\ meals' = meals
              /\ last'.replies[1].tag = "analysis_failed"

C21_PhotoAppendsOneEntry == [][C21_Step]_vars

\* the same photo was sent twice on one day: the sheet holds two equal entries
C21_Witness ==
    /\ last.kind = "photo" /\ last.user = 7
    /\ last.replies[1].tag = "photo_logged"
    /\ Len(meals) = 2
    /\ meals[1] = meals[2]
    /\ meals[2] = [User_ID |-> IntToStr(7), Date |-> DateOfDay(today),
                   Meal_description |-> tEgg, Calories |-> 300 * Scale,
                   Proteins |-> 20 * Scale + 50, Carbs |-> 80 * Scale, Fats |-> 0]

\* a text of nothing but whitespace
OnlyWhitespace(text) == \A i \in 1..Len(text) : text[i] \in {" ", "\t", "\n", "\r"}

\* the reply of a voice message that yields no text: one apology per cause
VoiceApology(obs) ==
    CASE obs.fault = "download" -> "download_failed"
      [] obs.fault = "transcribe" -> "transcription_failed"
      [] OTHER -> "not_understood"

\* a voice message of a registered chat that yielded no usable text: the
\* download failed, the transcriber raised, or the transcription is empty or
\* whitespace
VoiceYieldsNoText(obs, rows) ==
    /\ obs.kind = "voice"
    /\ HasProfile(rows, obs.user)
    /\ \/ obs.fault \in {"download", "transcribe"}
       \/ obs.fault \notin {"lookup", "download", "transcribe"} /\ OnlyWhitespace(obs.text)

\* C22: a voice message of a registered chat whose download fails, whose
\* transcription raises, or whose transcription is empty or whitespace gets
\* one apology; the classifier is not called, nothing is written to either
\* sheet, and the chat's conversation state is left as it was.
C22_Step ==
    VoiceYieldsNoText(last', profiles) =>
        /\ ~last'.raised
        /\ last'.replies = <<[tag |-> VoiceApology(last'), body |-> <<>>]>>
        /\ last'.route = "none"
        /\ last'.response = [kind |-> "none"]
        /\ profiles' = profiles
        /\ meals' = meals
        /\ user_data' = user_data

C22_VoiceWithoutTextOnlyApologises == [][C22_Step]_vars

\* chat 7 sent a voice message that transcribed to a blank
C22_Witness ==
    /\ last.kind = "voice" /\ last.user = 7
    /\ last.fault = "none"
    /\ last.text = <<" ">>
    /\ last.replies[1].tag = "not_understood"

\* the k-th entry of a set of row numbers, in the order of the sheet
NthEntry(S, k) == CHOOSE i \in S : Cardinality({j \in S : j < i}) = k - 1

\* C23: the meals a report for a chat and a date is built from are exactly
\* the Meals entries whose User_ID is the chat's and whose Date is that date,
\* in the order they were inserted: the report has one line per such entry,
\* the k-th line shows the k-th such entry of the sheet, and no line shows an
\* entry of another chat or date.
C23_ReportUsesEntriesInOrder ==
    (last.route = "report_builder" /\ last.replies[1].tag = "report") =>
        LET E == EntriesOf(meals, last.user, last.text)
            lines == last.replies[1].lines
        IN  /\ Len(lines) = Cardinality(E)
            /\ last.replies[1].n = Cardinality(E)
            /\ \A k \in 1..Len(lines) :
                   /\ lines[k].desc = meals[NthEntry(E, k)].Meal_description
                   /\ lines[k].calories * Scale = meals[NthEntry(E, k)].Calories

\* a report for chat 7 over two entries of the day, in the order of the sheet
C23_Witness ==
    /\ last.route = "report_builder" /\ last.user = 7
    /\ last.text = DateOfDay(0)
    /\ last.replies[1].tag = "report"
    /\ Len(last.replies[1].lines) = 2
    /\ last.replies[1].lines[1].desc = tEgg
    /\ last.replies[1].lines[2].desc = tAl

\* the words that ask for the current day
TodayWords == {<<"t", "o", "d", "a", "y">>, <<"t", "o", "n", "i", "g", "h", "t">>, <<"n", "o", "w">>}

\* the report_date of a response as the classifier wrote it, if it is a string
DateString(response) ==
    IF Has(response.data, "report_date") /\ response.data["report_date"].t = "str"
    THEN response.data["report_date"].s
    ELSE <<>>

HasDateString(response) ==
    Has(response.data, "report_date") /\ response.data["report_date"].t = "str"

\* the one reply of a get_report handling is a report message about the date
ReportAbout(obs, date) ==
    /\ ~obs.raised
    /\ Len(obs.replies) = 1
    /\ obs.replies[1].tag \in {"report", "report_no_meals"}
    /\ obs.replies[1].date = date

\* C24 as stated: the report date is the current UTC day when report_date is
\* absent or is today, tonight or now in any casing, and otherwise is the
\* classifier's string, character for character.
C24_VerbatimStep ==
    (/\ last'.route = "dispatcher"
     /\ PlanAction(last'.response) = aGetReport) =>
        ReportAbout(last',
                    IF /\ HasDateString(last'.response)
                       /\ Lower(DateString(last'.response)) \notin TodayWords
                    THEN DateString(last'.response)
                    ELSE DateOfDay(today))

C24_ReportDateVerbatim == [][C24_VerbatimStep]_vars

\* C24: on a get_report action the report date is the current UTC day when
\* report_date is absent, is no string, or is today, tonight or now in any
\* casing and with any whitespace around it; otherwise it is the classifier's
\* string without the whitespace around it, whatever its format. The one
\* reply is the report builder's message for the sender and that date; the
\* classifier's own reply is not sent; nothing is written.
C24_Step ==
    (/\ last'.route = "dispatcher"
     /\ PlanAction(last'.response) = aGetReport) =>
        LET date == IF /\ HasDateString(last'.response)
                       /\ Strip(Lower(DateString(last'.response))) \notin TodayWords
                    THEN Strip(DateString(last'.response))
                    ELSE DateOfDay(today)
        IN  /\ ReportAbout(last', date)
            /\ last'.replies[1] =
                   build_daily_report_message(profiles, meals, last'.user, date)
            /\ \A i \in 1..Len(last'.replies) : last'.replies[i].tag # "plan_reply"
            /\ profiles' = profiles
            /\ meals' = meals

C24_ReportDateResolved == [][C24_Step]_vars

\* chat 7 asked for the report of a date written with a space behind it and
\* got the report of that date, with the meal it logged
C24_Witness ==
    /\ last.route = "dispatcher" /\ last.user = 7
    /\ PlanAction(last.response) = aGetReport
    /\ DateString(last.response) = <<"2", "0", "2", "5", "-", "0", "1", "-", "0", "1", " ">>
    /\ last.replies[1].tag = "report"
    /\ last.replies[1].date = DateOfDay(0)

\* C25: a restart of the process empties the conversation state of every
\* chat (registration_step and registration_data included) and leaves the
\* Profile and Meals sheets as they were. A chat without a Profile whose
\* state is empty, as it is after a restart, is handled at ask_name: its next
\* text is taken as the name, no Profile is created by it, and the
\* registration data afterwards holds nothing but that name. The name of a
\* Profile that is created is the name held in the registration data at that
\* moment, so no answer lost in a restart reaches a Profile.
C25_Step ==
    /\ last'.kind = "restart" =>
          /\ \A u \in Users : user_data'[u] = EmptyDict
          /\ profiles' = profiles
          /\ meals' = meals
    /\ (/\ last'.kind = "text"
        /\ user_data[last'.user] = EmptyDict
        /\ ~HasProfile(profiles, last'.user)) =>
          /\ last'.route = "registration"
          /\ last'.step = "ask_name"
          /\ profiles' = profiles
          /\ DOMAIN DataOf(user_data'[last'.user]) \subseteq {"name"}
          /\ Has(DataOf(user_data'[last'.user]), "name") =>
                DataOf(user_data'[last'.user])["name"] = Strip(last'.text)
    /\ Len(profiles') > Len(profiles) =>
          /\ Has(DataOf(user_data[last'.user]), "name")
          /\ profiles'[Len(profiles')].User_ID = IntToStr(last'.user)
          /\ profiles'[Len(profiles')].Name = DataOf(user_data[last'.user])["name"]

C25_RestartLosesRegistration == [][C25_Step]_vars

\* a restart while chat 7 is registered and chat -12 has given its name and
\* said it knows its targets: the Profile of chat 7 is there, the answers of
\* chat -12 are gone
C25_Witness ==
    /\ last.kind = "restart"
    /\ HasProfile(profiles, 7)
    /\ ~HasProfile(profiles, -12)
    /\ StepOf(last.before[-12]) = "ask_calories_target"
    /\ Has(DataOf(last.before[-12]), "name")
    /\ user_data[-12] = EmptyDict

\* the edges of the registration graph that keep a step
NextSteps(step) ==
    CASE step = "ask_name" -> {"ask_know_targets"}
      [] step = "ask_know_targets" -> {"ask_calories_target", "ask_weight"}
      [] step = "ask_calories_target" -> {"ask_protein_target"}
      [] step = "ask_weight" -> {"ask_height"}
      [] step = "ask_height" -> {"ask_age"}
      [] step = "ask_age" -> {"ask_goal"}
      [] OTHER -> {}

\* the state a completed registration leaves: no step, no data, mode main
Cleared(ud) ==
    /\ ~Has(ud, "registration_step")
    /\ ~Has(ud, "registration_data")
    /\ Get(ud, "mode", "none") = "main"

\* the step a chat is at: ask_name when none is stored
StepAt(ud) == Get(ud, "registration_step", "ask_name")

\* C26: a handled message changes registration_step only along the edges of
\* the registration graph. A text handled by the registration assistant at a
\* step leaves the chat at that step (a re-prompt), at a successor of it
\* (ask_name to ask_know_targets; ask_know_targets to ask_calories_target or
\* ask_weight; ask_calories_target to ask_protein_target; ask_weight to
\* ask_height to ask_age to ask_goal), or, at ask_protein_target and ask_goal
\* only, in the cleared state with mode main; /start leaves the chat at
\* ask_name, or cleared with mode main if it has a Profile; every other
\* message leaves the step as it is, and no message changes the step of
\* another chat.
C26_Step ==
    last'.kind \in {"start", "text", "voice", "photo", "edited"} =>
        LET u == last'.user
            before == user_data[u]
            after == user_data'[u]
        IN  /\ \A v \in Users \ {u} : user_data'[v] = user_data[v]
            /\ last'.route = "registration" =>
                  /\ last'.step = StepAt(before)
                  /\ \/ /\ Has(after, "registration_step")
                        /\ after["registration_step"]
                              \in ({StepAt(before)} \cup NextSteps(StepAt(before)))
                     \/ /\ ~Has(after, "registration_step")
                        /\ ~Has(before, "registration_step")
                     \/ /\ Cleared(after)
                        /\ StepAt(before) \in {"ask_protein_target", "ask_goal"}
            /\ last'.kind = "start" =>
                  \/ /\ ~HasProfile(profiles, u)
                     /\ Has(after, "registration_step")
                     /\ after["registration_step"] = "ask_name"
                  \/ /\ HasProfile(profiles, u)
                     /\ Cleared(after)
            /\ (last'.route # "registration" /\ last'.kind # "start") =>
                  StepOf(after) = StepOf(before)

C26_StepFollowsRegistrationGraph == [][C26_Step]_vars

\* chat 7 is at ask_goal after its age was taken, on the estimated path
C26_Witness ==
    /\ last.route = "registration" /\ last.user = 7
    /\ last.step = "ask_age"
    /\ StepOf(last.before) = "ask_age"
    /\ StepOf(user_data[7]) = "ask_goal"

\* the answers of the two registration paths, as registration_data names them
ManualAnswers == {"calories_target", "protein_target"}
EstimatedAnswers == {"weight_kg", "height_cm", "age_years", "goal_raw"}

\* C29: in every state and for every chat, a chat at ask_protein_target has
\* calories_target in its registration data, a chat at ask_goal has weight_kg,
\* height_cm and age_years in it, and no registration data holds an answer of
\* the manual path together with an answer of the estimated path.
C29_RegistrationDataMatchesStep ==
    \A u \in Users :
        LET data == DataOf(user_data[u])
        IN  /\ StepOf(user_data[u]) = "ask_protein_target" =>
                  "calories_target" \in DOMAIN data
            /\ StepOf(user_data[u]) = "ask_goal" =>
                  {"weight_kg", "height_cm", "age_years"} \subseteq DOMAIN data
            /\ ~(/\ DOMAIN data \cap ManualAnswers # {}
                 /\ DOMAIN data \cap EstimatedAnswers # {})

\* chat 7 is at ask_goal of the estimated path, with its three measures and
\* no target
C29_Witness ==
    /\ StepOf(user_data[7]) = "ask_goal"
    /\ {"weight_kg", "height_cm", "age_years"} \subseteq DOMAIN DataOf(user_data[7])
    /\ DOMAIN DataOf(user_data[7]) \cap ManualAnswers = {}
    /\ last.route = "registration" /\ last.step = "ask_age"

\* the handling reached create_profile: the protein answer was a number, or
\* the estimator returned targets for the goal answer
ReachesCreate(obs) ==
    /\ obs.route = "registration"
    /\ \/ obs.step = "ask_protein_target" /\ IsFloatText(obs.text)
       \/ obs.step = "ask_goal" /\ obs.response.kind \in {"pair", "malformed"}

\* C30: when create_profile raises at the last step of a registration
\* (ask_protein_target or ask_goal), the chat has no Profile afterwards and
\* its conversation state is not cleared: mode is still registration and
\* registration_step keeps its value. A later answer at that step reaches
\* create_profile again, and creates the Profile when the call returns.
C30_Step ==
    ReachesCreate(last') =>
        LET u == last'.user
        IN  IF last'.fault = "create"
            THEN /\ profiles' = profiles
                 /\ ~HasProfile(profiles', u)
                 /\ Get(user_data'[u], "mode", "none") = "registration"
                 /\ StepOf(user_data'[u]) = last'.step
                 /\ StepOf(user_data[u]) = last'.step
            ELSE /\ Len(profiles') = Len(profiles) + 1
                 /\ HasProfile(profiles', u)

C30_FailedCreationKeepsState == [][C30_Step]_vars

\* chat 7 sent its protein target again after a creation that raised (the
\* registration data already held a protein target) and now has its Profile
C30_Witness ==
    /\ last.route = "registration" /\ last.user = 7
    /\ last.step = "ask_protein_target"
    /\ last.fault = "none"
    /\ Has(DataOf(last.before), "protein_target")
    /\ HasProfile(profiles, 7)

\* the Profile rows of a chat
ProfileRowsOf(rows, u) == {i \in 1..Len(rows) : rows[i].User_ID = IntToStr(u)}

\* the step takes the next update from the queue and begins its handling
BeginsUpdate ==
    /\ tasks.queue # <<>>
    /\ tasks'.queue = Tail(tasks.queue)
    /\ Len(tasks'.running) = Len(tasks.running) + 1

\* a registration dict without the goal answer
WithoutGoal(ud) ==
    [k \in DOMAIN DataOf(ud) \ {"goal_raw"} |-> DataOf(ud)[k]]

C27_Step ==
    /\ Len(tasks.running) <= 1
    /\ \A i \in 1..Len(tasks.running) :
           tasks.running[i].at = "calculating" =>
               LET h == tasks.running[i]
                   ud == user_data[h.update.user]
               IN  /\ StepOf(ud) = "ask_goal"
                   /\ StepOf(h.old) = "ask_goal"
                   /\ Get(ud, "mode", "none") = Get(h.old, "mode", "none")
                   /\ WithoutGoal(ud) = WithoutGoal(h.old)
                   /\ ~HasProfile(profiles, h.update.user)
    /\ last'.route = "registration" =>
           last'.step = StepAt(user_data[last'.user])

C28_AsStatedStep ==
    (BeginsUpdate /\ Head(tasks.queue).seen = "ask_goal") =>
        /\ last'.route = "registration"
        /\ last'.step = "ask_goal"

C28_Step ==
    /\ \A u \in Users : Cardinality(ProfileRowsOf(profiles', u)) <= 1
    /\ BeginsUpdate =>
          /\ tasks.running = <<>>
          /\ (Head(tasks.queue).seen = "ask_goal"
                /\ HasProfile(profiles, Head(tasks.queue).user)) =>
                /\ last'.route = "dispatcher"
                /\ profiles' = profiles
    /\ (last'.route = "registration" /\ last'.step = "ask_protein_target"
          /\ Len(profiles') > Len(profiles)) =>
          /\ BeginsUpdate
          /\ Cleared(user_data'[last'.user])

ManualPath ==
    <<"ask_name", "ask_know_targets", "ask_calories_target", "ask_protein_target">>
EstimatedPath ==
    <<"ask_name", "ask_know_targets", "ask_weight", "ask_height", "ask_age", "ask_goal">>

\* an answer the step asks for: any text as a name or a goal, a yes or a no,
\* a number (at ask_age a whole number)
AskedFor(step, text) ==
    CASE step \in NumericSteps -> ValidAt(step, text)
      [] step = "ask_know_targets" -> text \in {tYES, tNah}
      [] OTHER -> TRUE

\* the handling of answer number i of a path: the last answer creates the
\* Profile, an earlier one moves the chat to the next step of the path
Advances(path, i, u) ==
    IF i = Len(path)
    THEN /\ Len(profiles') = Len(profiles) + 1
         /\ HasProfile(profiles', u)
    ELSE /\ profiles' = profiles
         /\ StepAt(user_data'[u]) = path[i + 1]

\* C31: a valid answer handled with every call returning is answer number i of
\* the manual path (4 steps from ask_name) or of the estimated path (6 steps
\* from ask_name) and moves the chat to step i + 1 of that path, the last one
\* creating the Profile: from ask_name the Profile exists after 4 valid
\* answers on the manual path and 6 on the estimated one, and after fewer from
\* a later step. An answer the step does not take leaves the chat at its step
\* with its data and creates nothing. A chat without a Profile that keeps
\* sending valid answers, whatever it sends in between, gets its Profile.
C31_Step ==
    (last'.route = "registration" /\ ~last'.raised) =>
        LET u == last'.user
            s == last'.step
        IN  /\ s = StepAt(user_data[u])
            /\ AskedFor(s, last'.text) =>
                  \E path \in {ManualPath, EstimatedPath} :
                      \E i \in 1..Len(path) :
                          /\ path[i] = s
                          /\ Advances(path, i, u)
            /\ ~AskedFor(s, last'.text) =>
                  /\ profiles' = profiles
                  /\ StepAt(user_data'[u]) = s
                  /\ DataOf(user_data'[u]) = DataOf(user_data[u])

C31_ValidAnswersComplete ==
    /\ Len(ManualPath) = 4 /\ Len(EstimatedPath) = 6
    /\ [][C31_Step]_vars
    /\ (~HasProfile(profiles, 7)) ~> HasProfile(profiles, 7)

\* chat 7 has its Profile by the manual path: the protein target was the
\* fourth answer taken, the dict before it held the three earlier ones
C31_Witness ==
    /\ last.route = "registration" /\ last.user = 7 /\ ~last.raised
    /\ last.step = "ask_protein_target" /\ last.text = t1p5
    /\ DOMAIN DataOf(last.before) = {"name", "knows_targets", "calories_target"}
    /\ DataOf(last.before)["name"] = tNah
    /\ HasProfile(profiles, 7)

\* C32: a voice message or a photo of a chat without a Profile gets the one
\* reply that asks for /start and changes nothing: the chat's dict (mode,
\* registration_step, registration_data) and every other chat's dict are as
\* before, at whatever registration step the chat is; nothing was transcribed,
\* analysed or classified, no download was attempted and both sheets are as
\* before. The Profile lookup that found no Profile is the only call made.
C32_Step ==
    (last'.kind \in {"voice", "photo"} /\ ~HasProfile(profiles, last'.user)) =>
        /\ last'.replies = <<Reply("start_first", <<>>)>>
        /\ ~last'.raised
        /\ user_data' = user_data
        /\ last'.before = user_data[last'.user]
        /\ profiles' = profiles
        /\ meals' = meals
        /\ last'.route = "none"
        /\ last'.text = <<>>
        /\ last'.response = NoResponse
        /\ last'.est = <<>>
        /\ last'.fault = "none"

C32_MediaBeforeProfileChangesNothing == [][C32_Step]_vars

\* chat 7 sent a photo at ask_height, with its name and weight given: it was
\* told to send /start and is still at ask_height with both answers
C32_Witness ==
    /\ last.kind = "photo" /\ last.user = 7
    /\ last.replies = <<Reply("start_first", <<>>)>>
    /\ ~HasProfile(profiles, 7)
    /\ user_data[7] = last.before
    /\ Get(user_data[7], "mode", "none") = "registration"
    /\ StepOf(user_data[7]) = "ask_height"
    /\ {"name", "weight_kg"} \subseteq DOMAIN DataOf(user_data[7])

\* the entries of the Meals sheet a chat's reports are built from
MealsOf(rows, chat) == SelectSeq(rows, LAMBDA r : r.User_ID = IntToStr(chat))

\* the rows of a sheet that a step wrote: appended, or changed in place
Written(before, after) ==
    {after[i] : i \in {i \in 1..Len(after) : i > Len(before) \/ after[i] # before[i]}}

\* C33: handling a message of sender A leaves every other sender B's
\* conversation state, the Profile B's messages are handled with and the Meal
\* entries B's reports are built from as they were, and every row written
\* carries A's own user id.
C33_Step ==
    last'.kind \in {"start", "text", "voice", "photo", "edited"} =>
        LET A == last'.user
        IN  /\ \A B \in DOMAIN user_data \ {A} :
                  /\ user_data'[B] = user_data[B]
                  /\ get_profile_by_user_id(profiles', effective_chat(B))
                         = get_profile_by_user_id(profiles, effective_chat(B))
                  /\ MealsOf(meals', effective_chat(B)) = MealsOf(meals, effective_chat(B))
            /\ \A row \in Written(profiles, profiles') \cup Written(meals, meals') :
                  row.User_ID = IntToStr(A)

C33_MessagesTouchOnlyTheSender == [][C33_Step]_vars

\* member 5 of group -12 registered with targets 80 and 80; a text of member
\* 9, who never answered a registration question, was dispatched as an update
\* and the Profile row member 5 created now holds the targets that text asked
\* for
C33_Witness ==
    /\ last.kind = "text" /\ last.route = "dispatcher" /\ last.user = 9
    /\ last.before = EmptyDict
    /\ user_data[5] = MainOnly
    /\ Len(profiles) = 1
    /\ profiles[1].User_ID = IntToStr(-12)
    /\ profiles[1].Name = tY
    /\ profiles[1].Protein_target = 170 * Scale

\* replies to the goal question: with a gain word, with a gain word and a lose
\* word, with a lose word only, with neither; the words in any case and inside
\* other words
GainReplies == {<<"g", "a", "i", "n">>, <<"B", "U", "L", "K", " ", "u", "p">>, <<"M", "u", "s", "c", "l", "e">>, <<"a", "g", "a", "i", "n">>}
MixedReplies == {<<"C", "u", "t", " ", "b", "u", "l", "k">>, <<"l", "o", "s", "e", " ", "f", "a", "t", ",", " ", "g", "a", "i", "n", " ", "m", "u", "s", "c", "l", "e">>, <<"F", "A", "T", " ", "t", "o", " ", "M", "U", "S", "C", "L", "E">>}
LoseReplies == {<<"l", "o", "s", "e", " ", "f", "a", "t">>, <<"C", "u", "t">>, <<"F", "A", "T">>, <<"f", "a", "t", "h", "e", "r">>, <<"c", "l", "o", "s", "e", "d">>}
OtherGoalReplies == {<<"m", "a", "i", "n", "t", "a", "i", "n">>, <<"A", "l">>, <<"8", "0">>, <<" ">>, <<>>, <<"g", "e", "t", " ", "l", "e", "a", "n">>}

\* the goal the claim gives a reply
GoalOf(reply) ==
    IF reply \in GainReplies \cup MixedReplies THEN "gain muscle"
    ELSE IF reply \in LoseReplies THEN "lose fat"
    ELSE "maintain"

\* what text_registration does with reply w in the dict ud of chat u when the
\* estimator returns a pair
GoalAnswer(ud, u, w) ==
    text_registration(ud, u, w,
                      [kind |-> "pair", calories |-> 2000 * Scale, protein |-> 120 * Scale],
                      FALSE)

\* C34: at ask_goal a reply with gain, bulk or muscle in it, in any case and
\* anywhere in the text, is normalized to gain muscle even when it also holds
\* lose, cut or fat; a reply with lose, cut or fat and none of the former to
\* lose fat; any other reply, the empty one included, to maintain. No reply is
\* re-prompted: each goes on to the estimator with the normalized goal, and
\* creates the Profile when the estimator returns targets. Stated of every
\* reply a chat at ask_goal may send next, and of the reply the last handling
\* read.
C34_GoalPrecedence ==
    /\ \A u \in Users :
          (~HasProfile(profiles, u) /\ StepOf(user_data[u]) = "ask_goal") =>
              \A w \in GainReplies \cup MixedReplies \cup LoseReplies \cup OtherGoalReplies :
                  \E r \in {GoalAnswer(user_data[u], u, w)} :
                      /\ r.est[4] = GoalOf(w)
                      /\ r.step = "ask_goal"
                      /\ r.replies[1] = Reply("calculating", <<>>)
                      /\ Len(r.rows) = 1
                      /\ r.ud = MainOnly
    /\ (last.route = "registration" /\ last.step = "ask_goal") =>
          /\ last.replies # <<>>
          /\ last.replies[1] = Reply("calculating", <<>>)
          /\ last.est[4] = (IF last.text = tCutBulk THEN "gain muscle" ELSE "maintain")
          /\ last.response.kind \in {"pair", "malformed"} => HasProfile(profiles, last.user)

\* chat 7 answered the goal question with Cut bulk: the estimator was asked
\* for gain muscle and the chat has its Profile
C34_Witness ==
    /\ last.route = "registration" /\ last.step = "ask_goal" /\ last.user = 7
    /\ last.text = tCutBulk
    /\ last.est[4] = "gain muscle"
    /\ HasProfile(profiles, 7)

\* the totals and the targets the bar is drawn for: halves of a unit from
\* below 0 to beyond twice each target, and targets of 0 and below
BarTotals == {k * (Scale \div 2) : k \in -3..330}

BarTargets == {80 * Scale, 7 * Scale, 0, -80 * Scale}

FilledCells(bar) == Cardinality({i \in DOMAIN bar : bar[i] = "filled"})

\* what C35 says of the line of a total and a target
BarAsSpecified(line, total, target) ==
    IF target > 0
    THEN /\ line.progress.tag = "bar"
         /\ DOMAIN line.progress.bar = 1..20
         /\ \A i \in 1..20 : line.progress.bar[i] \in {"filled", "empty"}
         /\ FilledCells(line.progress.bar) \in 0..20
         /\ total >= target => FilledCells(line.progress.bar) = 20
         /\ line.progress.pct \in 0..200
         /\ total <= 0 => line.progress.pct = 0
         /\ total >= 2 * target => line.progress.pct = 200
         /\ (total > 0 /\ total < 2 * target) =>
                /\ 2 * (line.progress.pct * target - 100 * total) <= target
                /\ 2 * (100 * total - line.progress.pct * target) <= target
    ELSE /\ "progress" \notin DOMAIN line
         /\ line.target = "no target set"

\* C35: for every total and every target above 0 the bar has exactly 20
\* cells, between 0 and 20 of them filled and all 20 once the total reaches the
\* target, and the percentage shown is the ratio of total to target, kept
\* within 0% and 200%, as a whole number; with a target of 0 or below the line
\* has no bar and says that no target is set. This holds of the lines of every
\* report built, and of the line of every total and target drawn.
C35_ProgressBar ==
    /\ \A total \in BarTotals, target \in BarTargets :
           BarAsSpecified(TargetLine(total, target), total, target)
    /\ (last.route = "report_builder" /\ last.replies[1].tag = "report") =>
           LET rows == get_meals_for_date(meals, last.user, last.text)
               profile == get_profile_by_user_id(profiles, last.user)
           IN  /\ BarAsSpecified(last.replies[1].calories_line,
                                 SumOf(rows, "Calories"), profile.Calories_target)
               /\ BarAsSpecified(last.replies[1].protein_line,
                                 SumOf(rows, "Proteins"), profile.Protein_target)

\* a report for chat 7 over 380 of 2000 kcal and 20.5 of 120 g: 19% and 4
\* cells, 17% and 3 cells; and the bar of 78 of 80 is full at 98%
C35_Witness ==
    /\ last.route = "report_builder" /\ last.user = 7
    /\ last.replies[1].tag = "report"
    /\ RowOf(profiles, 7).Calories_target = 2000 * Scale
    /\ last.replies[1].calories_line.total = 380
    /\ last.replies[1].calories_line.progress.pct = 19
    /\ FilledCells(last.replies[1].calories_line.progress.bar) = 4
    /\ last.replies[1].protein_line.total = 20
    /\ last.replies[1].protein_line.progress.pct = 17
    /\ FilledCells(last.replies[1].protein_line.progress.bar) = 3
    /\ TargetLine(78 * Scale, 80 * Scale).progress.pct = 98
    /\ FilledCells(TargetLine(78 * Scale, 80 * Scale).progress.bar) = 20

====
